---------------------------- MODULE Spec2Model ----------------------------
(***************************************************************************)
(* Session core of the voice companion: the button/session state machines  *)
(* (src/core/state_machine.py, src/newApp/core/state_machine.py) and the   *)
(* duplex protocol clients (src/services/voice_agent.py,                   *)
(* src/newApp/services/voice_agent.py).                                    *)
(*                                                                         *)
(* The module holds several specifications over disjoint groups of         *)
(* variables; a specification moves its own group and leaves the others    *)
(* at their initial value.                                                 *)
(*   SpecEcho    : the newApp protocol client (echo suppression and the    *)
(*                 double-response guard), time in seconds.                *)
(*   SpecUnmute  : the three messages of an agent turn of SpecEcho in any   *)
(*                 order, the clock and the send loop under weak fairness. *)
(*   SpecSilence : silence_agent and its delayed injections on one         *)
(*                 connected VoiceAgent of src/services.                   *)
(*   SpecConn    : the life of one VoiceAgent of src/services: connect()   *)
(*                 step by step, its receiver thread with the function     *)
(*                 calls it handles, disconnect().                         *)
(*   SpecCore    : the session state machine of src/core with its lock,    *)
(*                 its timers and the VoiceAgent objects it creates.       *)
(*   SpecBye     : _check_for_bye of src/core applied to user utterances    *)
(*                 put together from words and punctuation.                *)
(*   SpecAudio   : the two audio paths of one connected VoiceAgent of      *)
(*                 src/services under the calls the session makes on it,   *)
(*                 time in quarters of a second.                           *)
(*   SpecLed     : _update_display of src/core and the colour of the LED,  *)
(*                 time in fifths of a second.                             *)
(*   SpecNewSM   : the newApp session state machine (button gestures, its  *)
(*                 timers, session start and end), time in tenths of a     *)
(*                 second.                                                 *)
(*   SpecSession : the src/core session with the button poll loop of the    *)
(*                 driver, one handler thread per edge, and the games.     *)
(***************************************************************************)
EXTENDS Integers, Sequences, FiniteSets, TLC

VARIABLES
    na,          \* newApp VoiceAgent: the fields its threads share
    now,         \* time.time(), in seconds
    gate_until,  \* local of newApp VoiceAgent._send_loop
    sent,        \* history: the last outbound frame of this instant [chunk, frame]
    heard,       \* history: what _handle_audio did with the last inbound frame
    turn,        \* history: where the current agent turn stands
    sva,         \* SpecSilence: the VoiceAgent (src/services)
    inj,         \* SpecSilence: the _delayed_inject thread of each call
    wire,        \* SpecSilence: the InjectAgentMessage texts sent, in order
    burst,       \* history: every call so far came with an injection and
                 \* before the delay of the call before it had elapsed
    cva,         \* SpecConn: fields of the VoiceAgent
    conn_pc,     \* SpecConn: where the thread calling connect() stands
    receiver,    \* SpecConn: the receiver thread, "none", "running" or "exited"
    last_call,   \* history: the public call that has just returned
    overlapped,  \* history: disconnect() was called while connect() was running
    fc,          \* SpecConn: the FunctionCallRequest in _handle_function_call
    nsm,         \* SpecNewSM: fields of the newApp VoiceAgentStateMachine
    nbtn,        \* SpecNewSM: the physical button, "up" or "down"
    since_click, \* SpecNewSM: time.time() - _last_click_time, saturating
    pause_timer, \* SpecNewSM: time left on _pause_timer, -1 when None
    long_press_timer, \* SpecNewSM: time left on _long_press_timer, -1 when None
    lp_orphan,   \* SpecNewSM: a long-press timer runs that is no longer referenced
    enders,      \* SpecNewSM: _end_conversation threads in their farewell sleep
    connects,    \* SpecNewSM: do_connect threads inside connect()
    gest,        \* history: the last press handled in active and what became of it
    sm,          \* SpecCore: fields of the src/core VoiceAgentStateMachine
    cbtn,        \* SpecCore: the physical button, "up" or "down"
    core_click,  \* SpecCore: time.time() - _last_click_time, saturating
    idle_timer,  \* SpecCore: callback of the pending _idle_timer, or "none"
    timer_thr,   \* SpecCore: timer threads that have expired and not finished,
                 \* and pending timers that _idle_timer no longer refers to
    agents,      \* SpecCore: the VoiceAgent objects created by start_agent
    conn_thr,    \* SpecCore: the do_connect thread of each agent
    recv_thr,    \* SpecCore: the receiver thread of each agent
    end_thr,     \* SpecCore: the _end_conversation threads
    reconnects,  \* SpecCore: _reconnect threads in their sleep
    leaked,      \* SpecCore: an open VoiceAgent was left with nothing referring to it
    clicks,      \* history: the last two presses handled in active or music
    call,        \* history: the function call the receiver thread handled last
    utter,       \* SpecBye: a user utterance and what _check_for_bye said of it
    ava,         \* SpecAudio: the fields of the VoiceAgent its audio paths read
    aclock,      \* SpecAudio: time.time(), in quarters of a second
    ases,        \* SpecAudio: the session, its state and the physical button
    spk,         \* history: the inbound frames written to the speaker, in order
    ahist,       \* history: the calls in force and the fate of the last frames
    led,         \* SpecLed: the fields _update_display keeps, the clock, the LED
    ss,          \* SpecSession: fields of the src/core VoiceAgentStateMachine
    sbtn,        \* SpecSession: the level _button_poll_loop read last
    sclick,      \* SpecSession: time.time() - _last_click_time, saturating
    hthr,        \* SpecSession: the handler threads the poll loop started
    games,       \* SpecSession: the game objects start_game created
    shist        \* history: what the step just taken was

echoVars == <<na, now, gate_until, sent, heard, turn>>

silenceVars == <<sva, inj, wire, burst>>

newsmVars == <<nsm, nbtn, since_click, pause_timer, long_press_timer,
              lp_orphan, enders, connects, gest>>

connVars == <<cva, conn_pc, receiver, last_call, overlapped, fc>>

coreVars == <<sm, cbtn, core_click, idle_timer, timer_thr, agents, conn_thr,
             recv_thr, end_thr, reconnects, leaked, clicks, call>>

byeVars == <<utter>>

audioVars == <<ava, aclock, ases, spk, ahist>>

ledVars == <<led>>

sessVars == <<ss, sbtn, sclick, hthr, games, shist>>

vars == <<echoVars, silenceVars, connVars, newsmVars, coreVars, byeVars,
          audioVars, ledVars, sessVars>>

\* a step of one specification leaves the variables of the others alone
EchoOnly ==
    UNCHANGED <<silenceVars, connVars, newsmVars, coreVars, byeVars, audioVars, ledVars, sessVars>>
SilenceOnly ==
    UNCHANGED <<echoVars, connVars, newsmVars, coreVars, byeVars, audioVars, ledVars, sessVars>>
ConnOnly ==
    UNCHANGED <<echoVars, silenceVars, newsmVars, coreVars, byeVars, audioVars, ledVars, sessVars>>
NewSMOnly ==
    UNCHANGED <<echoVars, silenceVars, connVars, coreVars, byeVars, audioVars, ledVars, sessVars>>
CoreOnly ==
    UNCHANGED <<echoVars, silenceVars, connVars, newsmVars, byeVars, audioVars, ledVars, sessVars>>
ByeOnly ==
    UNCHANGED <<echoVars, silenceVars, connVars, newsmVars, coreVars, audioVars, ledVars, sessVars>>
AudioOnly ==
    UNCHANGED <<echoVars, silenceVars, connVars, newsmVars, coreVars, byeVars, ledVars, sessVars>>
LedOnly ==
    UNCHANGED <<echoVars, silenceVars, connVars, newsmVars, coreVars, byeVars, audioVars, sessVars>>
SessOnly ==
    UNCHANGED <<echoVars, silenceVars, connVars, newsmVars, coreVars, byeVars, audioVars, ledVars>>

-----------------------------------------------------------------------------
(* Bounds of the model *)

MaxTime == 7          \* the clock of SpecEcho stops here
MaxSilenceSeq == 1    \* silence_agent calls counted in SpecEcho
MaxOpenTurns == 2     \* agent turns begun and not yet done in SpecEcho
MaxCalls == 3         \* silence_agent calls in SpecSilence
MaxEnders == 1        \* _end_conversation threads asleep at once in SpecNewSM
MaxConnects == 1      \* do_connect threads at once in SpecNewSM
MaxAgents == 2        \* VoiceAgent objects alive at once in SpecCore
MaxThreads == 1       \* timer, _end_conversation, _reconnect threads at once
MaxOrphans == 1       \* pending timers of SpecCore that no field refers to
MaxPieces == 3        \* words and marks an utterance of SpecBye is made of
MaxFunctions == 2     \* function entries in one FunctionCallRequest of SpecConn
MaxAudioTime == 4     \* the clock of SpecAudio stops here
MaxFrames == 3        \* inbound audio frames in one run of SpecAudio
MaxLedTime == 6       \* the clock of SpecLed stops here
MaxHandlers == 2      \* handler threads of the poll loop alive at once
MaxGames == 2         \* game objects created in one run of SpecSession

-----------------------------------------------------------------------------
(* newApp protocol client: src/newApp/services/voice_agent.py *)

ECHO_GATE_RMS == 800
ECHO_GATE_DURATION == 3
UNMUTE_DELAY == 2

\* the microphone chunks read (two samples stand for the 800 of a chunk):
\* silent, at the gate threshold (twice), just over it, just under it
Chunks == {<<0, 0>>, <<-800, -800>>, <<799, 801>>, <<801, 801>>, <<799, 799>>}

\* _SILENCE: as long as a chunk, all zeros
SILENCE == <<0, 0>>

RECURSIVE SumSquares(_)
SumSquares(s) ==
    IF s = <<>> THEN 0 ELSE Head(s) * Head(s) + SumSquares(Tail(s))

\* the largest r in lo..hi with r * r <= x
RECURSIVE IntSqrtBetween(_, _, _)
IntSqrtBetween(x, lo, hi) ==
    IF lo >= hi THEN lo
    ELSE LET mid == (lo + hi + 1) \div 2
         IN  IF mid * mid <= x THEN IntSqrtBetween(x, mid, hi)
             ELSE IntSqrtBetween(x, lo, mid - 1)

\* int(x ** 0.5) for the mean square x of 16-bit samples
IntSqrt(x) == IntSqrtBetween(x, 0, 32768)

\* _rms: int((sum(s*s) / n) ** 0.5); the floor of the root of a quotient is
\* the floor of the root of the floored quotient
rms(pcm) ==
    LET n == Len(pcm)
    IN  IF n = 0 THEN 0 ELSE IntSqrt(SumSquares(pcm) \div n)

na_init ==
    [mic_muted |-> FALSE, unmute_at |-> 0, silence_seq |-> 0,
     agent_spoke |-> FALSE, dropping_turn |-> FALSE, force_listen |-> FALSE]

\* force_listen(active)
na_force_listen(a, active) ==
    IF active
    THEN [a EXCEPT !.force_listen = TRUE, !.mic_muted = FALSE,
                   !.unmute_at = 0, !.dropping_turn = TRUE]
    ELSE [a EXCEPT !.force_listen = FALSE, !.dropping_turn = FALSE]

\* silence_agent(): the speaker pipe is torn down and restarted; of the
\* fields only the sequence number changes
na_silence_agent(a) == [a EXCEPT !.silence_seq = a.silence_seq + 1]

\* _handle_message, UserStartedSpeaking
na_on_user_started_speaking(a) ==
    [a EXCEPT !.agent_spoke = FALSE, !.dropping_turn = FALSE, !.mic_muted = FALSE]

\* the turn is played (neither force-listen nor the double-response guard
\* drops it)
na_turn_is_played(a) == ~a.force_listen /\ ~a.agent_spoke

\* AgentStartedSpeaking handled without muting the microphone
na_on_agent_started_speaking_nomute(a) ==
    IF a.force_listen THEN [a EXCEPT !.dropping_turn = TRUE]
    ELSE IF a.agent_spoke THEN [a EXCEPT !.dropping_turn = TRUE]
    ELSE [a EXCEPT !.dropping_turn = FALSE, !.agent_spoke = TRUE,
                   !.unmute_at = 0]

\* _handle_message, AgentStartedSpeaking
na_on_agent_started_speaking(a) ==
    IF a.force_listen THEN [a EXCEPT !.dropping_turn = TRUE]
    ELSE IF a.agent_spoke THEN [a EXCEPT !.dropping_turn = TRUE]
    ELSE [a EXCEPT !.dropping_turn = FALSE, !.agent_spoke = TRUE,
                   !.mic_muted = TRUE, !.unmute_at = 0]

\* AgentAudioDone handled with the unmute scheduled at once, no drain delay
na_on_agent_audio_done_nodelay(a, t) ==
    IF a.dropping_turn THEN [a EXCEPT !.dropping_turn = FALSE]
    ELSE [a EXCEPT !.unmute_at = t]

\* AgentAudioDone handled without scheduling the unmute
na_on_agent_audio_done_unscheduled(a, t) ==
    [a EXCEPT !.dropping_turn = FALSE]

\* _handle_message, AgentAudioDone, at time t
na_on_agent_audio_done(a, t) ==
    IF a.dropping_turn THEN [a EXCEPT !.dropping_turn = FALSE]
    ELSE [a EXCEPT !.unmute_at = t + UNMUTE_DELAY]

\* _handle_audio: is the inbound frame written to the speaker?
na_audio_is_written(a) == ~(a.dropping_turn \/ a.force_listen)

\* _send_loop: "Check if it's time to unmute"
na_unmute_due(a, t) == a.mic_muted /\ a.unmute_at # 0 /\ t >= a.unmute_at

\* _send_loop: the frame sent for a chunk, the unmute check already done
na_send_chunk(a, gate, t, chunk) ==
    IF a.mic_muted THEN SILENCE
    ELSE IF t < gate /\ rms(chunk) < ECHO_GATE_RMS THEN SILENCE
    ELSE chunk

NoFrame == [chunk |-> <<>>, frame |-> <<>>]

turn_init ==
    [phase |-> "none", clean |-> FALSE, uss |-> FALSE, pressed |-> FALSE,
     doneAt |-> 0, unmutedAt |-> 0, dropped |-> FALSE, open |-> 0]

EchoInit ==
    /\ na = na_init
    /\ now = 1
    /\ gate_until = 0
    /\ sent = NoFrame
    /\ heard = "none"
    /\ turn = turn_init

\* the clock advances
EchoTick ==
    /\ now < MaxTime
    /\ now' = now + 1
    /\ sent' = NoFrame
    /\ UNCHANGED <<na, gate_until, heard, turn>>
    /\ EchoOnly

\* one iteration of _send_loop: read a chunk, unmute if due, gate, send
EchoSendLoop ==
    /\ EchoOnly
    /\ \E chunk \in Chunks :
           LET due == na_unmute_due(na, now)
               a1 == IF due THEN [na EXCEPT !.mic_muted = FALSE, !.unmute_at = 0]
                     ELSE na
               g1 == IF due THEN now + ECHO_GATE_DURATION ELSE gate_until
           IN  /\ na' = a1
               /\ gate_until' = g1
               /\ sent' = [chunk |-> chunk,
                           frame |-> na_send_chunk(a1, g1, now, chunk)]
               /\ turn' = IF due /\ turn.phase = "done"
                          THEN [turn EXCEPT !.unmutedAt = now]
                          ELSE turn
               /\ UNCHANGED <<now, heard>>

\* the receive loop handles UserStartedSpeaking
EchoUserStartedSpeaking ==
    /\ na' = na_on_user_started_speaking(na)
    /\ turn' = [turn EXCEPT !.clean = FALSE, !.uss = TRUE, !.dropped = FALSE]
    /\ UNCHANGED <<now, gate_until, sent, heard>>
    /\ EchoOnly

\* the receive loop handles AgentStartedSpeaking
EchoAgentStartedSpeaking ==
    /\ turn.open < MaxOpenTurns
    /\ na' = na_on_agent_started_speaking(na)
    /\ IF na_turn_is_played(na)
       THEN /\ turn' = [phase |-> "speaking", clean |-> TRUE, uss |-> FALSE,
                        pressed |-> FALSE, doneAt |-> 0, unmutedAt |-> 0,
                        dropped |-> FALSE, open |-> turn.open + 1]
            /\ sent' = NoFrame
            /\ heard' = heard
       ELSE /\ turn' = [turn EXCEPT !.clean = FALSE, !.dropped = na.agent_spoke,
                                    !.open = @ + 1]
            /\ sent' = NoFrame
            /\ heard' = IF na.agent_spoke THEN "none" ELSE heard
    /\ UNCHANGED <<now, gate_until>>
    /\ EchoOnly

\* the receive loop handles AgentAudioDone
EchoAgentAudioDone ==
    /\ na' = na_on_agent_audio_done(na, now)
    /\ turn' = IF turn.phase = "speaking"
               THEN [turn EXCEPT !.phase = "done", !.doneAt = now,
                                 !.clean = turn.clean /\ ~na.dropping_turn,
                                 !.dropped = FALSE, !.open = IF @ > 0 THEN @ - 1 ELSE 0]
               ELSE [turn EXCEPT !.clean = FALSE, !.dropped = FALSE,
                                 !.open = IF @ > 0 THEN @ - 1 ELSE 0]
    /\ UNCHANGED <<now, gate_until, sent, heard>>
    /\ EchoOnly

\* the receive loop handles a binary frame (_handle_audio)
EchoAudioFrame ==
    /\ heard' = IF na_audio_is_written(na) THEN "written" ELSE "discarded"
    /\ heard' # heard
    /\ UNCHANGED <<na, now, gate_until, sent, turn>>
    /\ EchoOnly

\* the session calls force_listen(active) on a button edge
EchoForceListen ==
    /\ EchoOnly
    /\ \E active \in BOOLEAN :
           /\ na' = na_force_listen(na, active)
           /\ na' # na
           /\ turn' = [turn EXCEPT !.clean = FALSE,
                                   !.pressed = turn.pressed \/ active]
           /\ UNCHANGED <<now, gate_until, sent, heard>>

\* the session calls silence_agent() on a button press
EchoSilenceAgent ==
    /\ na.silence_seq < MaxSilenceSeq
    /\ na' = na_silence_agent(na)
    /\ UNCHANGED <<now, gate_until, sent, heard, turn>>
    /\ EchoOnly

EchoNext ==
    \/ EchoTick
    \/ EchoSendLoop
    \/ EchoUserStartedSpeaking
    \/ EchoAgentStartedSpeaking
    \/ EchoAgentAudioDone
    \/ EchoAudioFrame
    \/ EchoForceListen
    \/ EchoSilenceAgent

-----------------------------------------------------------------------------
(* Protocol client of src/services/voice_agent.py: one VoiceAgent object *)

\* __init__
va_init ==
    [running |-> FALSE, ws |-> "none", mic_proc |-> FALSE,
     speaker_proc |-> FALSE, ready |-> FALSE, input_enabled |-> FALSE,
     paused |-> FALSE, silence_seq |-> 0]

\* the object once connect() has returned with the handshake acknowledged
va_connected ==
    [va_init EXCEPT !.running = TRUE, !.ws = "open", !.mic_proc = TRUE,
                    !.speaker_proc = TRUE, !.ready = TRUE]

\* disconnect(): the fields when it returns
va_disconnect(a) ==
    IF ~a.running THEN a
    ELSE [a EXCEPT !.running = FALSE, !.mic_proc = FALSE,
                   !.speaker_proc = FALSE, !.ws = "none", !.ready = FALSE]

\* silence_agent(): next sequence number, speaker pipe killed and restarted
va_silence_agent(a) ==
    [a EXCEPT !.silence_seq = a.silence_seq + 1, !.speaker_proc = TRUE]

\* inject_user_message(): is the InjectAgentMessage put on the wire?
va_inject_sends(a) == a.ws = "open" /\ a.running

\* a delayed injection that never looks at the sequence number
va_inject_is_current_always(a, my_seq) == TRUE

\* _delayed_inject: the check after the sleep (False: stale, bail out)
va_inject_is_current(a, my_seq) == a.silence_seq = my_seq

NoCall == [my_seq |-> 0, then_inject |-> 0, pc |-> "nocall", stale |-> FALSE]

SilenceInit ==
    /\ sva = va_connected
    /\ inj = [k \in 1..MaxCalls |-> NoCall]
    /\ wire = <<>>
    /\ burst = TRUE

\* silence_agent(then_inject): call number k carries the text k, or None
SilenceAgent ==
    /\ SilenceOnly
    /\ \E with_inject \in BOOLEAN :
           LET a1 == va_silence_agent(sva)
               k == a1.silence_seq
           IN  /\ sva.silence_seq < MaxCalls
               /\ sva' = a1
               /\ inj' = [inj EXCEPT ![k] =
                            [my_seq |-> k,
                             then_inject |-> IF with_inject THEN k ELSE 0,
                             pc |-> IF with_inject THEN "sleeping" ELSE "done",
                             stale |-> FALSE]]
               /\ burst' = (/\ burst
                            /\ with_inject
                            /\ k > 1 => inj[k - 1].pc = "sleeping")
               /\ UNCHANGED wire

\* time.sleep(2.0) of a _delayed_inject thread returns
SilenceDelayElapsed ==
    /\ SilenceOnly
    /\ \E k \in 1..MaxCalls :
           /\ inj[k].pc = "sleeping"
           /\ inj' = [inj EXCEPT ![k].pc = "awake",
                                 ![k].stale = (sva.silence_seq # inj[k].my_seq)]
           /\ UNCHANGED <<sva, wire, burst>>

\* _delayed_inject compares the sequence numbers
SilenceCheck ==
    /\ SilenceOnly
    /\ \E k \in 1..MaxCalls :
           /\ inj[k].pc = "awake"
           /\ inj' = [inj EXCEPT ![k].pc =
                        IF va_inject_is_current(sva, inj[k].my_seq)
                        THEN "inject" ELSE "done"]
           /\ UNCHANGED <<sva, wire, burst>>

\* _delayed_inject calls inject_user_message(then_inject)
SilenceInject ==
    /\ SilenceOnly
    /\ \E k \in 1..MaxCalls :
           /\ inj[k].pc = "inject"
           /\ inj' = [inj EXCEPT ![k].pc = "done"]
           /\ wire' = IF va_inject_sends(sva)
                      THEN Append(wire, inj[k].then_inject) ELSE wire
           /\ UNCHANGED <<sva, burst>>

\* the session disconnects the agent
SilenceDisconnect ==
    /\ sva.running
    /\ sva' = va_disconnect(sva)
    /\ UNCHANGED <<inj, wire, burst>>
    /\ SilenceOnly

SilenceNext ==
    \/ SilenceAgent
    \/ SilenceDelayElapsed
    \/ SilenceCheck
    \/ SilenceInject
    \/ SilenceDisconnect

-----------------------------------------------------------------------------
(* One VoiceAgent of src/services from construction on.  The session      *)
(* calls connect() once on each object it creates; disconnect() may be    *)
(* called at any time, by any thread.                                     *)

\* the tools the agent asks for: one that may change the session state and
\* one that never does; what the executor does with the request
ToolNames == {"play_song", "set_volume"}
ToolOutcomes == {"done", "nothing_to_play", "raises"}

\* the ids of the function calls of a request
CallIds == {1, 2}

\* the function entries a FunctionCallRequest may carry
FunctionEntries == [id : CallIds, name : ToolNames]

\* a FunctionCallRequest: its "functions" list
Requests ==
    UNION {[1..n -> FunctionEntries] : n \in 1..MaxFunctions}

NoRequest == [frame |-> <<>>, outcomes |-> <<>>, responses |-> <<>>, done |-> FALSE]

NoConnCall == [op |-> "none", consecutive |-> 0, changed |-> FALSE,
               emitted |-> FALSE, raised |-> FALSE, failure |-> "none"]

ConnInit ==
    /\ cva = va_init
    /\ conn_pc = "new"
    /\ receiver = "none"
    /\ last_call = NoConnCall
    /\ overlapped = FALSE
    /\ fc = NoRequest

\* connect() up to the socket: the flag is raised, readiness cleared
ConnConnectBegin ==
    /\ ConnOnly
    /\ UNCHANGED <<overlapped, fc>>
    /\ conn_pc = "new"
    /\ conn_pc' = IF cva.running THEN "returned" ELSE "opening"
    /\ cva' = IF cva.running THEN cva
              ELSE [cva EXCEPT !.running = TRUE, !.ready = FALSE]
    /\ last_call' = IF cva.running THEN [NoConnCall EXCEPT !.op = "connect"]
                    ELSE NoConnCall
    /\ UNCHANGED receiver

\* websockets connect: the socket opens, or the failure is caught
ConnOpenSocket ==
    /\ ConnOnly
    /\ UNCHANGED <<overlapped, fc>>
    /\ conn_pc = "opening"
    /\ \E ok \in BOOLEAN :
         IF ok
         THEN /\ cva' = [cva EXCEPT !.ws = "open"]
              /\ conn_pc' = "settings"
              /\ last_call' = NoConnCall
         ELSE /\ cva' = [cva EXCEPT !.running = FALSE]
              /\ conn_pc' = "returned"
              /\ last_call' = [NoConnCall EXCEPT !.op = "connect",
                                                 !.failure = "open"]
    /\ UNCHANGED receiver

\* the settings message is sent and the receiver thread started; a send
\* on a socket that is gone or broken raises out of connect()
ConnSendSettings ==
    /\ ConnOnly
    /\ UNCHANGED <<overlapped, fc>>
    /\ conn_pc = "settings"
    /\ IF cva.ws = "open"
       THEN /\ receiver' = "running"
            /\ conn_pc' = "waiting"
            /\ last_call' = NoConnCall
       ELSE /\ conn_pc' = "returned"
            /\ last_call' = [NoConnCall EXCEPT !.op = "connect", !.raised = TRUE,
                                               !.failure = "send"]
            /\ UNCHANGED receiver
    /\ UNCHANGED cva

\* the receiver reads SettingsApplied: _ready.set()
ConnSettingsApplied ==
    /\ ConnOnly
    /\ UNCHANGED <<overlapped, fc>>
    /\ receiver = "running" /\ cva.running /\ cva.ws = "open"
    /\ ~cva.ready
    /\ cva' = [cva EXCEPT !.ready = TRUE]
    /\ last_call' = NoConnCall
    /\ UNCHANGED <<conn_pc, receiver>>

\* the peer or the network breaks the socket
ConnSocketError ==
    /\ ConnOnly
    /\ UNCHANGED <<overlapped, fc>>
    /\ cva.ws = "open"
    /\ cva' = [cva EXCEPT !.ws = "broken"]
    /\ last_call' = NoConnCall
    /\ UNCHANGED <<conn_pc, receiver>>

\* _receive_loop leaves its loop: recv failed, or the flag or the socket
\* is gone; it reports "disconnected" and lowers the flag, nothing else
va_receiver_exit(a) == [a EXCEPT !.running = FALSE]

ConnReceiverExit ==
    /\ ConnOnly
    /\ UNCHANGED <<overlapped, fc>>
    /\ receiver = "running"
    /\ ~cva.running \/ cva.ws # "open"
    /\ receiver' = "exited"
    /\ cva' = va_receiver_exit(cva)
    /\ last_call' = NoConnCall
    /\ UNCHANGED conn_pc

\* _ready.wait(15) returns: acknowledged, or timed out and disconnect()
ConnWaitReturns ==
    /\ ConnOnly
    /\ UNCHANGED <<overlapped, fc>>
    /\ conn_pc = "waiting"
    /\ IF cva.ready
       THEN /\ conn_pc' = "start_mic"
            /\ last_call' = NoConnCall
            /\ UNCHANGED cva
       ELSE /\ cva' = va_disconnect(cva)
            /\ conn_pc' = "returned"
            /\ last_call' = [NoConnCall EXCEPT !.op = "connect",
                                               !.failure = "timeout"]
    /\ UNCHANGED receiver

\* start_recording_stream and the sender thread
ConnStartMic ==
    /\ ConnOnly
    /\ UNCHANGED <<overlapped, fc>>
    /\ conn_pc = "start_mic"
    /\ cva' = [cva EXCEPT !.mic_proc = TRUE]
    /\ conn_pc' = "start_speaker"
    /\ last_call' = NoConnCall
    /\ UNCHANGED receiver

\* start_playback_stream, then on_event("connected") and return
ConnStartSpeaker ==
    /\ ConnOnly
    /\ UNCHANGED <<overlapped, fc>>
    /\ conn_pc = "start_speaker"
    /\ cva' = [cva EXCEPT !.speaker_proc = TRUE]
    /\ conn_pc' = "returned"
    /\ last_call' = [NoConnCall EXCEPT !.op = "connect"]
    /\ UNCHANGED receiver

\* connect() has been called and has not returned
ConnectInProgress == conn_pc \notin {"new", "returned"}

\* disconnect() from call to return
ConnDisconnect ==
    /\ ConnOnly
    /\ overlapped' = (overlapped \/ ConnectInProgress)
    /\ UNCHANGED fc
    /\ cva' = va_disconnect(cva)
    /\ last_call' = [op |-> "disconnect",
                     consecutive |-> IF last_call.op = "disconnect" THEN 2 ELSE 1,
                     changed |-> (cva' # cva),
                     emitted |-> cva.running,
                     raised |-> FALSE,
                     failure |-> "none"]
    /\ UNCHANGED <<conn_pc, receiver>>

\* the receiver reads a FunctionCallRequest: _handle_function_call begins
ConnFunctionCallRequest ==
    /\ ConnOnly
    /\ receiver = "running" /\ cva.running /\ cva.ws = "open"
    /\ receiver' = "call"
    /\ \E frame \in Requests : fc' = [NoRequest EXCEPT !.frame = frame]
    /\ last_call' = NoConnCall
    /\ UNCHANGED <<cva, conn_pc, overlapped>>

\* a response that does not carry the id of its call
fc_response_uncorrelated(func, outcome) ==
    [id |-> 0, name |-> func.name,
     content |-> IF outcome = "raises" THEN "error" ELSE "result"]

\* the FunctionCallResponse for a function entry: the result of the
\* executor, or the error text when it raised
fc_response(func, outcome) ==
    [id |-> func.id, name |-> func.name,
     content |-> IF outcome = "raises" THEN "error" ELSE "result"]

\* _handle_function_call, one function entry: the executor is called, its
\* exception caught, the response sent; a send that fails is caught too
ConnHandleFunction ==
    /\ ConnOnly
    /\ receiver = "call"
    /\ \E outcome \in ToolOutcomes :
         LET func == fc.frame[Len(fc.outcomes) + 1]
             last == Len(fc.outcomes) + 1 = Len(fc.frame)
         IN  /\ fc' = [fc EXCEPT
                         !.outcomes = Append(@, outcome),
                         !.responses = IF cva.ws = "open"
                                       THEN Append(@, fc_response(func, outcome))
                                       ELSE @,
                         !.done = last]
             /\ receiver' = IF last THEN "running" ELSE "call"
    /\ last_call' = NoConnCall
    /\ UNCHANGED <<cva, conn_pc, overlapped>>

ConnNext ==
    \/ ConnFunctionCallRequest
    \/ ConnHandleFunction
    \/ ConnConnectBegin
    \/ ConnOpenSocket
    \/ ConnSendSettings
    \/ ConnSettingsApplied
    \/ ConnSocketError
    \/ ConnReceiverExit
    \/ ConnWaitReturns
    \/ ConnStartMic
    \/ ConnStartSpeaker
    \/ ConnDisconnect

-----------------------------------------------------------------------------
(* newApp session state machine: src/newApp/core/state_machine.py.        *)
(* Times are in tenths of a second.  The class takes no lock; a handler   *)
(* or timer callback that does not sleep is one step.  The idle timer and *)
(* a long-press timer whose reference was overwritten may fire at any     *)
(* time; the display and its response-delay timer are left out.           *)

NEW_DOUBLE_CLICK_SEC == 4
NEW_PAUSE_HOLD_SEC == 20
NEW_LONG_PRESS_SEC == 50

NoGesture == [ptt |-> FALSE, held |-> 0, released |-> FALSE, long_press |-> FALSE]

\* __init__ and _set_state("idle")
nsm_init ==
    [state |-> "idle", holding |-> FALSE, paused |-> FALSE, agent |-> "none",
     idle_timer |-> FALSE]

NewSMInit ==
    /\ nsm = nsm_init
    /\ nbtn = "up"
    /\ since_click = NEW_DOUBLE_CLICK_SEC
    /\ pause_timer = -1
    /\ long_press_timer = -1
    /\ lp_orphan = FALSE
    /\ enders = 0
    /\ connects = 0
    /\ gest = NoGesture

\* _toggle_pause: the flag flips; with an agent the call of set_paused, which
\* the newApp VoiceAgent does not define, raises and ends the caller there
nsm_toggle_pause(m) ==
    IF m.agent # "none" THEN [m EXCEPT !.paused = ~m.paused]
    ELSE [m EXCEPT !.paused = ~m.paused, !.idle_timer = TRUE]

nsm_toggle_pause_raises(m) == m.agent # "none"

\* _set_state("idle"): _enter_idle starts no timer and cancels none
nsm_enter_idle(m) == [m EXCEPT !.state = "idle"]

\* _set_state("active"): _enter_active restarts the idle timer
nsm_enter_active(m) == [m EXCEPT !.state = "active", !.idle_timer = TRUE]

\* _on_button_release_active: the long-press timer after timer.cancel()
nsm_release_cancels_long_press(t) == -1

Dec(t) == IF t > 0 THEN t - 1 ELSE t

\* the press handled in active is still held, short of the threshold
NewHoldCounts ==
    nbtn = "down" /\ gest.ptt /\ ~gest.released /\ gest.held < NEW_LONG_PRESS_SEC

\* a tenth of a second passes; a timer that is due runs first
NewTick ==
    /\ NewSMOnly
    /\ pause_timer # 0 /\ long_press_timer # 0
    /\ \/ since_click < NEW_DOUBLE_CLICK_SEC
       \/ pause_timer > 0 \/ long_press_timer > 0
       \/ NewHoldCounts
    /\ since_click' = IF since_click < NEW_DOUBLE_CLICK_SEC
                      THEN since_click + 1 ELSE since_click
    /\ pause_timer' = Dec(pause_timer)
    /\ long_press_timer' = Dec(long_press_timer)
    /\ gest' = IF NewHoldCounts THEN [gest EXCEPT !.held = gest.held + 1] ELSE gest
    /\ UNCHANGED <<nsm, nbtn, lp_orphan, enders, connects>>

\* press edge in idle: _on_button_press_idle, start_agent
NewPressIdle ==
    /\ NewSMOnly
    /\ nbtn = "up" /\ nsm.state = "idle"
    /\ connects < MaxConnects
    /\ nbtn' = "down"
    /\ nsm' = [nsm EXCEPT !.holding = TRUE, !.agent = "connecting"]
    /\ connects' = connects + 1
    /\ gest' = NoGesture
    /\ UNCHANGED <<since_click, pause_timer, long_press_timer, lp_orphan, enders>>

\* release edge in idle: _on_button_release_idle
NewReleaseIdle ==
    /\ NewSMOnly
    /\ nbtn = "down" /\ nsm.state = "idle"
    /\ nbtn' = "up"
    /\ nsm' = [nsm EXCEPT !.holding = FALSE]
    /\ UNCHANGED <<since_click, pause_timer, long_press_timer, lp_orphan,
                   enders, connects, gest>>

\* do_connect: connect() returns, then _set_state("active") or ("idle")
NewConnectDone ==
    /\ NewSMOnly
    /\ connects > 0
    /\ connects' = connects - 1
    /\ \E ok \in BOOLEAN :
         nsm' = IF nsm.agent = "none" THEN nsm
                ELSE IF ok \/ nsm.agent = "running"
                THEN nsm_enter_active([nsm EXCEPT !.agent = "running"])
                ELSE nsm_enter_idle([nsm EXCEPT !.agent = "stopped"])
    /\ UNCHANGED <<nbtn, since_click, pause_timer, long_press_timer, lp_orphan,
                   enders, gest>>

\* press edge in active: _on_button_press_active
NewPressActive ==
    /\ NewSMOnly
    /\ nbtn = "up" /\ nsm.state = "active"
    /\ nbtn' = "down"
    /\ LET m0 == [nsm EXCEPT !.holding = TRUE]
       IN  IF since_click < NEW_DOUBLE_CLICK_SEC
           THEN \* double-click: pause toggle, no timer started
                /\ since_click' = NEW_DOUBLE_CLICK_SEC
                /\ nsm' = nsm_toggle_pause([m0 EXCEPT !.holding = FALSE])
                /\ gest' = NoGesture
                /\ UNCHANGED <<pause_timer, long_press_timer, lp_orphan>>
           ELSE IF m0.paused /\ nsm_toggle_pause_raises(m0)
           THEN \* unpausing raises: the handler ends before the timers
                /\ nsm' = nsm_toggle_pause(m0)
                /\ gest' = NoGesture
                /\ UNCHANGED <<since_click, pause_timer, long_press_timer, lp_orphan>>
           ELSE \* push-to-talk: silence_agent, force_listen(True), the timers
                /\ nsm' = [(IF m0.paused THEN nsm_toggle_pause(m0) ELSE m0)
                             EXCEPT !.idle_timer = TRUE]
                /\ pause_timer' = NEW_PAUSE_HOLD_SEC
                /\ long_press_timer' = NEW_LONG_PRESS_SEC
                /\ lp_orphan' = (lp_orphan \/ long_press_timer # -1)
                /\ gest' = [NoGesture EXCEPT !.ptt = TRUE]
                /\ UNCHANGED since_click
    /\ UNCHANGED <<enders, connects>>

\* release edge in active: _on_button_release_active
NewReleaseActive ==
    /\ NewSMOnly
    /\ nbtn = "down" /\ nsm.state = "active"
    /\ nbtn' = "up"
    /\ long_press_timer' = nsm_release_cancels_long_press(long_press_timer)
    /\ pause_timer' = -1
    /\ since_click' = 0
    /\ nsm' = IF nsm.paused THEN [nsm EXCEPT !.holding = FALSE]
              ELSE [nsm EXCEPT !.holding = FALSE, !.idle_timer = TRUE]
    /\ gest' = [gest EXCEPT !.released = TRUE]
    /\ UNCHANGED <<lp_orphan, enders, connects>>

\* the pause timer fires: _on_pause_hold
NewPauseHold ==
    /\ NewSMOnly
    /\ pause_timer = 0
    /\ pause_timer' = -1
    /\ nsm' = nsm_toggle_pause(nsm)
    /\ UNCHANGED <<nbtn, since_click, long_press_timer, lp_orphan, enders,
                   connects, gest>>

\* _end_conversation(reason) up to its sleep; without an agent, or on
\* timeout, it goes through to _set_state("idle") in one piece
nsm_end_conversation_begin(m, reason) ==
    IF m.agent = "none" THEN nsm_enter_idle([m EXCEPT !.idle_timer = FALSE])
    ELSE IF reason = "timeout"
    THEN nsm_enter_idle([m EXCEPT !.agent = "none", !.idle_timer = FALSE])
    ELSE m

nsm_end_conversation_sleeps(m, reason) == m.agent # "none" /\ reason # "timeout"

\* a long-press timer fires: _on_long_press_active, _end_conversation("button")
NewLongPress ==
    /\ NewSMOnly
    /\ \/ /\ long_press_timer = 0
          /\ long_press_timer' = -1
          /\ lp_orphan' = lp_orphan
          /\ gest' = [gest EXCEPT !.long_press = TRUE]
       \/ /\ lp_orphan
          /\ lp_orphan' \in BOOLEAN
          /\ UNCHANGED <<long_press_timer, gest>>
    /\ nsm_end_conversation_sleeps(nsm, "button") => enders < MaxEnders
    /\ nsm' = nsm_end_conversation_begin(nsm, "button")
    /\ enders' = IF nsm_end_conversation_sleeps(nsm, "button")
                 THEN enders + 1 ELSE enders
    /\ UNCHANGED <<nbtn, since_click, pause_timer, connects>>

\* the idle timer fires: _on_idle_timeout, _end_conversation("timeout")
NewIdleTimeout ==
    /\ NewSMOnly
    /\ nsm.idle_timer
    /\ nsm' = IF nsm.state = "active"
              THEN nsm_end_conversation_begin(nsm, "timeout")
              ELSE [nsm EXCEPT !.idle_timer = FALSE]
    /\ UNCHANGED <<nbtn, since_click, pause_timer, long_press_timer, lp_orphan,
                   enders, connects, gest>>

\* the user says a farewell phrase: _end_conversation("bye") in a thread
NewBye ==
    /\ NewSMOnly
    /\ nsm.state = "active" /\ nsm.agent = "running"
    /\ enders < MaxEnders
    /\ enders' = enders + 1
    /\ nsm' = [nsm EXCEPT !.idle_timer = TRUE]
    /\ UNCHANGED <<nbtn, since_click, pause_timer, long_press_timer, lp_orphan,
                   connects, gest>>

\* _end_conversation after its sleep: disconnect, _agent = None,
\* _cancel_idle_timer, _set_state("idle"); with _agent already None the
\* call of disconnect raises and the thread ends there
NewEndConversationFinish ==
    /\ NewSMOnly
    /\ enders > 0
    /\ enders' = enders - 1
    /\ nsm' = IF nsm.agent = "none" THEN nsm
              ELSE nsm_enter_idle([nsm EXCEPT !.agent = "none", !.idle_timer = FALSE])
    /\ UNCHANGED <<nbtn, since_click, pause_timer, long_press_timer, lp_orphan,
                   connects, gest>>

NewSMNext ==
    \/ NewTick
    \/ NewPressIdle
    \/ NewReleaseIdle
    \/ NewConnectDone
    \/ NewPressActive
    \/ NewReleaseActive
    \/ NewPauseHold
    \/ NewLongPress
    \/ NewIdleTimeout
    \/ NewBye
    \/ NewEndConversationFinish

-----------------------------------------------------------------------------
(* Session state machine of src/core/state_machine.py with the VoiceAgent *)
(* objects it creates.  A handler that runs under the session lock is one *)
(* step; a timer thread holds the lock from its epoch check to the end of *)
(* its callback.  The epoch is kept relative to each timer thread: stale  *)
(* stands for self._epoch != my_epoch.  Times are in fifths of a second;  *)
(* the idle timers may fire at any time.  A VoiceAgent object that no     *)
(* thread and no field refers to any more, and that holds nothing, gives  *)
(* its place to the next one.  stop(), the games and the display are left *)
(* out.                                                                   *)

DOUBLE_CLICK_SEC == 2

NoTimer == "none"
NoEnder == [pc |-> "none", reason |-> "none", agent |-> 0, injected |-> FALSE]
NoClicks == [first_ptt |-> FALSE, double |-> FALSE, second_ptt |-> FALSE]
NoToolCall ==
    [name |-> "none", in_session |-> FALSE, quiet |-> TRUE, invoked |-> 0,
     sent |-> 0, music |-> FALSE, done |-> FALSE]

AgentIds == 1..MaxAgents
EnderIds == 1..MaxThreads

\* __init__: every field, then _set_state("asleep")
sm_init == [state |-> "asleep", running |-> TRUE, holding |-> FALSE, agent |-> 0]

CoreInit ==
    /\ sm = sm_init
    /\ cbtn = "up"
    /\ core_click = DOUBLE_CLICK_SEC
    /\ idle_timer = NoTimer
    /\ timer_thr = {}
    /\ agents = [i \in AgentIds |-> va_init]
    /\ conn_thr = [i \in AgentIds |-> "none"]
    /\ recv_thr = [i \in AgentIds |-> "none"]
    /\ end_thr = [k \in EnderIds |-> NoEnder]
    /\ reconnects = 0
    /\ leaked = FALSE
    /\ clicks = NoClicks
    /\ call = NoToolCall

\* the session lock is held by a timer thread inside its callback
LockFree == \A t \in timer_thr : t.pc # "body"

\* now - self._last_click_time < DOUBLE_CLICK_SEC
sm_is_double_click(since) == since < DOUBLE_CLICK_SEC

\* _set_state: the fields of the session after the entry handler
sm_set_state(m, new_state) ==
    IF new_state = "asleep"
    THEN [m EXCEPT !.state = new_state, !.holding = FALSE]
    ELSE [m EXCEPT !.state = new_state]

\* _set_state: self._epoch += 1 makes every timer thread started before
\* stale.  An unreferenced timer that is still pending can then only expire
\* and return in _guarded: it is followed no further.
timers_after_set_state(T) ==
    {[t EXCEPT !.stale = TRUE] : t \in {u \in T : u.pc # "pending"}}

\* _set_state: _cancel_all_timers, then the timer the entry handler starts
idle_timer_after_set_state(new_state) ==
    CASE new_state = "idle" -> "idle_sleep"
      [] new_state \in {"active", "music"} -> "idle_timeout"
      [] OTHER -> NoTimer

\* _set_state: _enter_asleep resets _last_click_time
click_after_set_state(since, new_state) ==
    IF new_state = "asleep" THEN DOUBLE_CLICK_SEC ELSE since

\* _touch_activity: _restart_idle_timer
idle_timer_after_touch == "idle_timeout"

\* a set_input_enabled that changes nothing
va_set_input_ignored(a, enabled) == a

\* set_input_enabled
va_set_input_enabled(a, enabled) ==
    IF enabled THEN [a EXCEPT !.input_enabled = TRUE, !.paused = FALSE]
    ELSE [a EXCEPT !.input_enabled = FALSE]

\* silence_agent as the session calls it: the speaker pipe is restarted
\* (the sequence number is followed in SpecSilence)
va_silence_restart(a) == [a EXCEPT !.speaker_proc = TRUE]

va_released(a) ==
    /\ ~a.running
    /\ ~a.ready
    /\ a.ws = "none"
    /\ ~a.mic_proc
    /\ ~a.speaker_proc

\* a Connection is open: running, or holding a socket or a process
va_is_open(a) == a.running \/ a.ws # "none" \/ a.mic_proc \/ a.speaker_proc

FreeEnders == {k \in EnderIds : end_thr[k].pc = "none"}

\* threading.Thread(target=self._end_conversation, args=(reason,)).start()
SpawnEnder(E, reason) ==
    LET k == CHOOSE j \in FreeEnders : \A i \in FreeEnders : j <= i
    IN  [E EXCEPT ![k] = [pc |-> "spawned", reason |-> reason, agent |-> 0,
                          injected |-> FALSE]]

\* timers that run although self._idle_timer no longer refers to them
OrphanTimers == {t \in timer_thr : t.pc = "pending"}

\* helper threads alive: expired timers, _end_conversation, _reconnect
ThreadCount ==
    Cardinality(timer_thr \ OrphanTimers) + Cardinality(EnderIds \ FreeEnders)
        + reconnects

CanSpawn == ThreadCount < MaxThreads

\* a _reconnect thread may sleep beside the _end_conversation threads
CanSpawnReconnect ==
    Cardinality(timer_thr \ OrphanTimers) + reconnects < MaxThreads

\* nothing refers to the VoiceAgent object any more: not the session, not
\* an _end_conversation thread, not its own do_connect or receiver thread
Unreferenced(i, m, C, R, E) ==
    /\ m.agent # i
    /\ C[i] = "none" /\ R[i] = "none"
    /\ \A k \in EnderIds : E[k].agent # i

\* the objects nothing refers to leave their places
Collect(A, m, C, R, E) ==
    [i \in AgentIds |-> IF Unreferenced(i, m, C, R, E) THEN va_init ELSE A[i]]

\* one of them leaves while still open: nothing will ever release it
Leaks(A, m, C, R, E) ==
    \E i \in AgentIds : Unreferenced(i, m, C, R, E) /\ va_is_open(A[i])

FreeAgents ==
    {i \in AgentIds : Unreferenced(i, sm, conn_thr, recv_thr, end_thr)}

\* start_agent: a new VoiceAgent replaces self._agent, do_connect is
\* spawned and calls connect(), which raises the running flag.  The new
\* object takes place 1, the ones before it move up to the first free place.
CanStartAgent == FreeAgents # {}

FirstFree == CHOOSE f \in FreeAgents : \A j \in FreeAgents : f <= j

MovedUp(i) == IF i = 0 \/ i >= FirstFree THEN i ELSE i + 1

WithNewAgent(F, fresh) ==
    [i \in AgentIds |-> IF i = 1 THEN fresh
                        ELSE IF i <= FirstFree THEN F[i - 1] ELSE F[i]]

sm_start_agent(m) == [m EXCEPT !.agent = 1]

agents_start_agent == WithNewAgent(agents, [va_init EXCEPT !.running = TRUE])

conn_start_agent == WithNewAgent(conn_thr, "connecting")

recv_start_agent == WithNewAgent(recv_thr, "none")

end_start_agent == [k \in EnderIds |-> [end_thr[k] EXCEPT !.agent = MovedUp(@)]]

StartAgent(m) ==
    /\ CanStartAgent
    /\ sm' = sm_start_agent(m)
    /\ conn_thr' = conn_start_agent
    /\ recv_thr' = recv_start_agent
    /\ end_thr' = end_start_agent
    /\ agents' = Collect(agents_start_agent, sm_start_agent(m), conn_start_agent,
                         recv_start_agent, end_start_agent)
    /\ leaked' = (leaked \/ Leaks(agents_start_agent, sm_start_agent(m),
                                  conn_start_agent, recv_start_agent,
                                  end_start_agent))

\* a receiver thread is inside _handle_function_call
ToolRunning == \E i \in AgentIds : recv_thr[i] \in {"tool", "starting"}

\* the history of a call is kept until the step after its response; it
\* notes that another thread of the session ran while the call was handled
CallKept ==
    call' = IF call.done THEN NoToolCall
            ELSE IF ToolRunning THEN [call EXCEPT !.quiet = FALSE]
            ELSE call

\* a fifth of a second passes
CoreTick ==
    /\ CoreOnly
    /\ call' = IF call.done THEN NoToolCall ELSE call
    /\ core_click < DOUBLE_CLICK_SEC
    /\ core_click' = core_click + 1
    /\ UNCHANGED <<sm, cbtn, idle_timer, timer_thr, agents, conn_thr, recv_thr,
                   end_thr, reconnects, clicks, leaked>>

\* press edge while asleep: _on_button_press_asleep, _wake_up
CorePressAsleep ==
    /\ CoreOnly
    /\ CallKept
    /\ cbtn = "up" /\ sm.state = "asleep" /\ LockFree
    /\ cbtn' = "down"
    /\ clicks' = NoClicks
    /\ IF sm_is_double_click(core_click)
       THEN /\ sm' = sm_set_state(sm, "idle")
            /\ core_click' = DOUBLE_CLICK_SEC
            /\ idle_timer' = idle_timer_after_set_state("idle")
            /\ timer_thr' = timers_after_set_state(timer_thr)
       ELSE /\ core_click' = 0
            /\ UNCHANGED <<sm, idle_timer, timer_thr>>
    /\ UNCHANGED <<agents, conn_thr, recv_thr, end_thr, reconnects, leaked>>

\* release edge while asleep: no release callback is registered
CoreReleaseAsleep ==
    /\ CoreOnly
    /\ CallKept
    /\ cbtn = "down" /\ sm.state = "asleep"
    /\ cbtn' = "up"
    /\ UNCHANGED <<sm, core_click, idle_timer, timer_thr, agents, conn_thr,
                   recv_thr, end_thr, reconnects, clicks, leaked>>

\* press edge in idle: _on_button_press_idle
CorePressIdle ==
    /\ CoreOnly
    /\ CallKept
    /\ cbtn = "up" /\ sm.state = "idle" /\ LockFree
    /\ cbtn' = "down"
    /\ clicks' = NoClicks
    /\ IF sm_is_double_click(core_click)
       THEN /\ core_click' = DOUBLE_CLICK_SEC
            /\ StartAgent([sm EXCEPT !.holding = TRUE])
       ELSE /\ core_click' = 0
            /\ UNCHANGED <<sm, agents, conn_thr, recv_thr, end_thr, leaked>>
    /\ UNCHANGED <<idle_timer, timer_thr, reconnects>>

\* release edge in idle: _on_button_release_idle
CoreReleaseIdle ==
    /\ CoreOnly
    /\ CallKept
    /\ cbtn = "down" /\ sm.state = "idle" /\ LockFree
    /\ cbtn' = "up"
    /\ sm' = [sm EXCEPT !.holding = FALSE]
    /\ agents' = IF sm.agent = 0 THEN agents
                 ELSE [agents EXCEPT ![sm.agent] = va_set_input_enabled(@, FALSE)]
    /\ UNCHANGED <<core_click, idle_timer, timer_thr, conn_thr, recv_thr,
                   end_thr, reconnects, clicks, leaked>>

\* press edge in active or music: _on_button_press_active
CorePressActive ==
    /\ CoreOnly
    /\ CallKept
    /\ cbtn = "up" /\ sm.state \in {"active", "music"} /\ LockFree
    /\ cbtn' = "down"
    /\ IF sm_is_double_click(core_click)
       THEN \* double-click: end the conversation, return
            /\ CanSpawn
            /\ core_click' = DOUBLE_CLICK_SEC
            /\ sm' = [sm EXCEPT !.holding = FALSE]
            /\ end_thr' = SpawnEnder(end_thr, "double_click")
            /\ clicks' = [clicks EXCEPT !.double = TRUE, !.second_ptt = FALSE]
            /\ UNCHANGED <<agents, idle_timer>>
       ELSE \* push-to-talk: silence_agent, set_input_enabled(True), touch
            /\ sm' = [sm EXCEPT !.holding = TRUE]
            /\ agents' = IF sm.agent = 0 THEN agents
                         ELSE [agents EXCEPT ![sm.agent] =
                                 va_set_input_enabled(va_silence_restart(@), TRUE)]
            /\ idle_timer' = idle_timer_after_touch
            /\ clicks' = [NoClicks EXCEPT !.first_ptt = TRUE]
            /\ UNCHANGED <<core_click, end_thr>>
    /\ UNCHANGED <<timer_thr, conn_thr, recv_thr, reconnects, leaked>>

\* release edge in active or music: _on_button_release_active
CoreReleaseActive ==
    /\ CoreOnly
    /\ CallKept
    /\ cbtn = "down" /\ sm.state \in {"active", "music"} /\ LockFree
    /\ cbtn' = "up"
    /\ sm' = [sm EXCEPT !.holding = FALSE]
    /\ core_click' = 0
    /\ agents' = IF sm.agent = 0 THEN agents
                 ELSE [agents EXCEPT ![sm.agent] = va_set_input_enabled(@, FALSE)]
    /\ idle_timer' = idle_timer_after_touch
    /\ UNCHANGED <<timer_thr, conn_thr, recv_thr, end_thr, reconnects,
                   clicks, leaked>>

\* connect() returns: handshake acknowledged and streams started, or the
\* socket failed or the acknowledgment timed out; after a disconnect()
\* during the handshake the socket it opened stays
va_connect_returns(a, ok) ==
    IF a.running
    THEN IF ok THEN [a EXCEPT !.ws = "open", !.mic_proc = TRUE,
                              !.speaker_proc = TRUE, !.ready = TRUE]
         ELSE va_disconnect(a)
    ELSE IF ok THEN [a EXCEPT !.ws = "open"] ELSE a

\* connect() returns and do_connect, under the lock, looks at self._agent
CoreConnectDone ==
    /\ CoreOnly
    /\ CallKept
    /\ LockFree
    /\ \E i \in AgentIds, ok \in BOOLEAN :
         /\ conn_thr[i] = "connecting"
         /\ LET A1 == [agents EXCEPT ![i] = va_connect_returns(@, ok)]
                C1 == [conn_thr EXCEPT ![i] = "none"]
                R1 == IF agents[i].running /\ ok
                      THEN [recv_thr EXCEPT ![i] = "running"] ELSE recv_thr
                new_state == IF sm.agent = 0 \/ ~A1[sm.agent].running
                             THEN "asleep" ELSE "active"
                A2 == IF new_state = "asleep" THEN A1
                      ELSE [A1 EXCEPT ![sm.agent] =
                              va_set_input_enabled(@, sm.holding)]
            IN  /\ conn_thr' = C1
                /\ recv_thr' = R1
                /\ sm' = sm_set_state(sm, new_state)
                /\ agents' = Collect(A2, sm, C1, R1, end_thr)
                /\ leaked' = (leaked \/ Leaks(A2, sm, C1, R1, end_thr))
                /\ idle_timer' = idle_timer_after_set_state(new_state)
                /\ core_click' = click_after_set_state(core_click, new_state)
    /\ timer_thr' = timers_after_set_state(timer_thr)
    /\ UNCHANGED <<cbtn, end_thr, reconnects, clicks>>

\* _on_agent_event lets the event through
sm_accepts_events(m) == m.running /\ m.state \in {"active", "music"}

\* an event that only touches the activity timer (user_speaking,
\* agent_thinking, agent_speaking, conversation_text, agent_audio_done)
CoreAgentActivity ==
    /\ CoreOnly
    /\ CallKept
    /\ LockFree
    /\ \E i \in AgentIds : recv_thr[i] = "running"
    /\ sm_accepts_events(sm)
    /\ idle_timer' = idle_timer_after_touch
    /\ UNCHANGED <<sm, cbtn, core_click, timer_thr, agents, conn_thr, recv_thr,
                   end_thr, reconnects, clicks, leaked>>

\* conversation_text of the user with a farewell: _end_conversation("bye")
CoreAgentBye ==
    /\ CoreOnly
    /\ CallKept
    /\ LockFree
    /\ \E i \in AgentIds : recv_thr[i] = "running"
    /\ sm_accepts_events(sm)
    /\ CanSpawn
    /\ idle_timer' = idle_timer_after_touch
    /\ end_thr' = SpawnEnder(end_thr, "bye")
    /\ UNCHANGED <<sm, cbtn, core_click, timer_thr, agents, conn_thr, recv_thr,
                   reconnects, clicks, leaked>>

\* _handle_function_call: on_event("function_call") under the lock.  The
\* history follows one call at a time.
CoreFunctionCall ==
    /\ CoreOnly
    /\ LockFree
    /\ \A j \in AgentIds : recv_thr[j] \in {"none", "running"}
    /\ \E i \in AgentIds :
         /\ recv_thr[i] = "running"
         /\ recv_thr' = [recv_thr EXCEPT ![i] = "tool"]
         /\ call' = [NoToolCall EXCEPT !.in_session = sm_accepts_events(sm)]
    /\ idle_timer' = IF sm_accepts_events(sm) THEN idle_timer_after_touch
                     ELSE idle_timer
    /\ UNCHANGED <<sm, cbtn, core_click, timer_thr, agents, conn_thr, end_thr,
                   reconnects, clicks, leaked>>

\* execute_tool: play_song asks for the music state when a song plays
tool_sets_music(name, outcome) == name = "play_song" /\ outcome = "done"

\* a response that is never put on the wire
call_after_response_unsent(c, a) == [c EXCEPT !.done = TRUE]

\* _handle_function_call after the executor: the FunctionCallResponse goes
\* out if the socket is still there
call_after_response(c, a) ==
    [c EXCEPT !.sent = IF a.ws = "open" THEN @ + 1 ELSE @, !.done = TRUE]

\* _receive_loop after a frame: while self._running and self._ws
recv_after_frame(a) == IF a.running THEN "running" ELSE "none"

\* execute_tool in the receiver thread.  play_song calls _set_state("music")
\* without the session lock: the state, the epoch, _cancel_all_timers, and
\* in _enter_music the _cancel_timer of _restart_idle_timer.  Any other
\* outcome leaves the session alone and the response is sent.
CoreExecuteTool ==
    /\ CoreOnly
    /\ \E i \in AgentIds, name \in ToolNames, outcome \in ToolOutcomes :
         /\ recv_thr[i] = "tool"
         /\ LET c1 == [call EXCEPT !.name = name, !.invoked = @ + 1,
                                   !.music = tool_sets_music(name, outcome)]
            IN  IF tool_sets_music(name, outcome)
                THEN /\ call' = c1
                     /\ recv_thr' = [recv_thr EXCEPT ![i] = "starting"]
                     /\ sm' = sm_set_state(sm, "music")
                     /\ idle_timer' = NoTimer
                     /\ timer_thr' = timers_after_set_state(timer_thr)
                     /\ UNCHANGED <<agents, leaked>>
                ELSE /\ call' = call_after_response(c1, agents[i])
                     /\ recv_thr' = [recv_thr EXCEPT ![i] = recv_after_frame(agents[i])]
                     /\ agents' = Collect(agents, sm, conn_thr, recv_thr', end_thr)
                     /\ leaked' = (leaked \/ Leaks(agents, sm, conn_thr, recv_thr',
                                                   end_thr))
                     /\ UNCHANGED <<sm, idle_timer, timer_thr>>
    /\ UNCHANGED <<cbtn, core_click, conn_thr, end_thr, reconnects, clicks>>

\* _restart_idle_timer, second half, still without the lock:
\* self._idle_timer = self._start_timer(...).  A timer that another thread
\* stored in the field since the _cancel_timer runs on, unreferenced.  Then
\* execute_tool returns and the response is sent.
CoreToolStartTimer ==
    /\ CoreOnly
    /\ \E i \in AgentIds :
         /\ recv_thr[i] = "starting"
         /\ recv_thr' = [recv_thr EXCEPT ![i] = recv_after_frame(agents[i])]
         /\ call' = call_after_response(call, agents[i])
         /\ agents' = Collect(agents, sm, conn_thr, recv_thr', end_thr)
         /\ leaked' = (leaked \/ Leaks(agents, sm, conn_thr, recv_thr', end_thr))
    /\ idle_timer # NoTimer => Cardinality(OrphanTimers) < MaxOrphans
    /\ timer_thr' = IF idle_timer = NoTimer THEN timer_thr
                    ELSE timer_thr \cup {[cb |-> idle_timer, stale |-> FALSE,
                                          pc |-> "pending"]}
    /\ idle_timer' = idle_timer_after_touch
    /\ UNCHANGED <<sm, cbtn, core_click, conn_thr, end_thr, reconnects, clicks>>

\* a reconnect that does not look at the state
sm_reconnects_in_any_state(m) == m.running

\* the disconnected event and _reconnect after its sleep: is the session
\* running and active?
sm_reconnects(m) == m.running /\ m.state = "active"

\* the socket of a connected agent fails: _receive_loop reports
\* disconnected(receiver_exit) and lowers the flag; in active the session
\* spawns _reconnect
CoreReceiverExit ==
    /\ CoreOnly
    /\ CallKept
    /\ LockFree
    /\ \E i \in AgentIds :
         /\ recv_thr[i] = "running" /\ agents[i].running
         /\ LET A1 == [agents EXCEPT ![i] =
                              va_receiver_exit([@ EXCEPT !.ws = "broken"])]
                R1 == [recv_thr EXCEPT ![i] = "none"]
            IN  /\ recv_thr' = R1
                /\ agents' = Collect(A1, sm, conn_thr, R1, end_thr)
                /\ leaked' = (leaked \/ Leaks(A1, sm, conn_thr, R1, end_thr))
    /\ IF sm_reconnects(sm)
       THEN CanSpawnReconnect /\ reconnects' = reconnects + 1
       ELSE reconnects' = reconnects
    /\ UNCHANGED <<sm, cbtn, core_click, idle_timer, timer_thr, conn_thr,
                   end_thr, clicks>>

\* _reconnect after its sleep
CoreReconnect ==
    /\ CoreOnly
    /\ CallKept
    /\ LockFree
    /\ reconnects > 0
    /\ reconnects' = reconnects - 1
    /\ IF sm_reconnects(sm)
       THEN StartAgent(sm)
       ELSE UNCHANGED <<sm, agents, conn_thr, recv_thr, end_thr, leaked>>
    /\ UNCHANGED <<cbtn, core_click, idle_timer, timer_thr, clicks>>

\* the pending timer expires: its thread starts and can no longer be cancelled
CoreTimerFires ==
    /\ CoreOnly
    /\ CallKept
    /\ idle_timer # NoTimer
    /\ CanSpawn
    /\ timer_thr' = timer_thr \cup {[cb |-> idle_timer, stale |-> FALSE, pc |-> "fired"]}
    /\ idle_timer' = NoTimer
    /\ UNCHANGED <<sm, cbtn, core_click, agents, conn_thr, recv_thr, end_thr, reconnects, clicks, leaked>>

\* a timer that nothing refers to expires
CoreOrphanFires ==
    /\ CoreOnly
    /\ CanSpawn
    /\ \E t \in OrphanTimers :
         timer_thr' = (timer_thr \ {t}) \cup {[t EXCEPT !.pc = "fired"]}
    /\ UNCHANGED <<sm, cbtn, core_click, idle_timer, agents, conn_thr, recv_thr,
                   end_thr, reconnects, clicks, leaked>>
    /\ CallKept

\* _guarded: has the epoch moved on?
sm_timer_may_run(m, t) == ~t.stale /\ m.running

\* _guarded takes the lock and checks the epoch
CoreTimerGuard ==
    /\ CoreOnly
    /\ CallKept
    /\ LockFree
    /\ \E t \in timer_thr :
         /\ t.pc = "fired"
         /\ timer_thr' = IF sm_timer_may_run(sm, t)
                         THEN (timer_thr \ {t}) \cup {[t EXCEPT !.pc = "body"]}
                         ELSE timer_thr \ {t}
    /\ UNCHANGED <<sm, cbtn, core_click, idle_timer, agents, conn_thr, recv_thr,
                   end_thr, reconnects, clicks, leaked>>

\* the callback runs: _on_idle_timeout or _on_idle_sleep; the lock is released
CoreTimerBody ==
    /\ CoreOnly
    /\ CallKept
    /\ \E t \in timer_thr :
         /\ t.pc = "body"
         /\ CASE t.cb = "idle_timeout" /\ sm.state = "active" ->
                   /\ end_thr' = SpawnEnder(end_thr, "timeout")
                   /\ timer_thr' = timer_thr \ {t}
                   /\ UNCHANGED <<sm, idle_timer, core_click>>
              [] t.cb = "idle_sleep" /\ sm.state = "idle" ->
                   /\ sm' = sm_set_state(sm, "asleep")
                   /\ idle_timer' = idle_timer_after_set_state("asleep")
                   /\ core_click' = click_after_set_state(core_click, "asleep")
                   /\ timer_thr' = timers_after_set_state(timer_thr \ {t})
                   /\ UNCHANGED end_thr
              [] OTHER ->
                   /\ timer_thr' = timer_thr \ {t}
                   /\ UNCHANGED <<sm, idle_timer, core_click, end_thr>>
    /\ UNCHANGED <<cbtn, agents, conn_thr, recv_thr, reconnects, clicks, leaked>>

\* _end_conversation, first block under the lock: take the agent away
CoreEndBegin ==
    /\ CoreOnly
    /\ CallKept
    /\ LockFree
    /\ \E k \in EnderIds :
         /\ end_thr[k].pc = "spawned"
         /\ end_thr' = [end_thr EXCEPT ![k].agent = sm.agent,
                                       ![k].pc = IF sm.agent = 0 THEN "asleep"
                                                 ELSE "farewell"]
    /\ sm' = [sm EXCEPT !.agent = 0]
    /\ UNCHANGED <<cbtn, core_click, idle_timer, timer_thr, agents, conn_thr,
                   recv_thr, reconnects, clicks, leaked>>

\* a termination that makes its closing remark whatever the reason
end_sends_remark_always(reason, a) == va_inject_sends(a)

\* _end_conversation: is the closing remark put on the wire?
end_sends_remark(reason, a) == reason # "timeout" /\ va_inject_sends(a)

\* _end_conversation outside the lock: the closing remark and its wait
\* (skipped on timeout), then agent.disconnect()
CoreEndDisconnect ==
    /\ CoreOnly
    /\ CallKept
    /\ \E k \in EnderIds :
         /\ end_thr[k].pc = "farewell"
         /\ end_thr' = [end_thr EXCEPT
                          ![k].pc = "asleep",
                          ![k].injected = end_sends_remark(end_thr[k].reason,
                                              agents[end_thr[k].agent])]
         /\ agents' = [agents EXCEPT ![end_thr[k].agent] = va_disconnect(@)]
         /\ recv_thr' = IF recv_thr[end_thr[k].agent] = "running"
                           /\ agents[end_thr[k].agent].running
                        THEN [recv_thr EXCEPT ![end_thr[k].agent] = "none"]
                        ELSE recv_thr
    /\ UNCHANGED <<sm, cbtn, core_click, idle_timer, timer_thr, conn_thr,
                   reconnects, clicks, leaked>>

\* _end_conversation, last block under the lock: _set_state("asleep")
CoreEndAsleep ==
    /\ CoreOnly
    /\ CallKept
    /\ LockFree
    /\ \E k \in EnderIds :
         /\ end_thr[k].pc = "asleep"
         /\ end_thr' = [end_thr EXCEPT ![k] = NoEnder]
    /\ agents' = Collect(agents, sm, conn_thr, recv_thr, end_thr')
    /\ leaked' = (leaked \/ Leaks(agents, sm, conn_thr, recv_thr, end_thr'))
    /\ sm' = sm_set_state(sm, "asleep")
    /\ idle_timer' = idle_timer_after_set_state("asleep")
    /\ core_click' = click_after_set_state(core_click, "asleep")
    /\ timer_thr' = timers_after_set_state(timer_thr)
    /\ UNCHANGED <<cbtn, conn_thr, recv_thr, reconnects, clicks>>

CoreNext ==
    \/ CoreTick
    \/ CorePressAsleep
    \/ CoreReleaseAsleep
    \/ CorePressIdle
    \/ CoreReleaseIdle
    \/ CorePressActive
    \/ CoreReleaseActive
    \/ CoreConnectDone
    \/ CoreAgentActivity
    \/ CoreAgentBye
    \/ CoreFunctionCall
    \/ CoreExecuteTool
    \/ CoreToolStartTimer
    \/ CoreReceiverExit
    \/ CoreReconnect
    \/ CoreTimerFires
    \/ CoreOrphanFires
    \/ CoreTimerGuard
    \/ CoreTimerBody
    \/ CoreEndBegin
    \/ CoreEndDisconnect
    \/ CoreEndAsleep

-----------------------------------------------------------------------------
(* _check_for_bye of src/core/state_machine.py.  A text is a sequence of   *)
(* characters; the utterances are put together from the farewell phrases,  *)
(* other words, blanks and punctuation marks.                              *)

BYE_WORDS ==
    { <<"b", "y", "e">>,
      <<"g", "o", "o", "d", "b", "y", "e">>,
      <<"o", "k", " ", "b", "y", "e">>,
      <<"g", "o", "o", "d", " ", "b", "y", "e">>,
      <<"s", "e", "e", " ", "y", "a">>,
      <<"s", "e", "e", " ", "y", "o", "u">>,
      <<"b", "y", "e", " ", "b", "y", "e">> }

\* what an utterance is made of
Pieces ==
    BYE_WORDS \cup
    { <<"B", "y", "e">>, <<"O", "K">>, <<"n", "o">>, <<"s", "t", "a", "n", "d">>,
      <<" ">>, <<".">>, <<"!">>, <<"?">>, <<",">> }

Whitespace == {" "}

\* str.lower() on the characters in use
chr_lower(c) ==
    CASE c = "B" -> "b"
      [] c = "O" -> "o"
      [] c = "K" -> "k"
      [] OTHER -> c

str_lower(t) == [i \in 1..Len(t) |-> chr_lower(t[i])]

RECURSIVE str_rstrip(_, _)
str_rstrip(t, cs) ==
    IF t # <<>> /\ t[Len(t)] \in cs
    THEN str_rstrip(SubSeq(t, 1, Len(t) - 1), cs)
    ELSE t

RECURSIVE str_lstrip(_, _)
str_lstrip(t, cs) ==
    IF t # <<>> /\ t[1] \in cs THEN str_lstrip(Tail(t), cs) ELSE t

\* str.strip()
str_strip(t) == str_rstrip(str_lstrip(t, Whitespace), Whitespace)

\* str.endswith(w)
str_endswith(t, w) ==
    Len(w) <= Len(t) /\ SubSeq(t, Len(t) - Len(w) + 1, Len(t)) = w

\* cleaned = text.lower().strip().rstrip(".!?,")
bye_cleaned(text) == str_rstrip(str_strip(str_lower(text)), {".", "!", "?", ","})

\* _check_for_bye
sm_check_for_bye(text) ==
    IF text = <<>> THEN FALSE
    ELSE \E bye \in BYE_WORDS :
            bye_cleaned(text) = bye \/ str_endswith(bye_cleaned(text), bye)

ByeInit == utter = [text |-> <<>>, pieces |-> 0, checked |-> FALSE, bye |-> FALSE]

\* the transcript grows by a word, a blank or a mark
ByeAppend ==
    /\ ByeOnly
    /\ utter.pieces < MaxPieces
    /\ \E w \in Pieces :
         utter' = [text |-> utter.text \o w, pieces |-> utter.pieces + 1,
                   checked |-> FALSE, bye |-> FALSE]

\* conversation_text of the user: _check_for_bye(content)
ByeCheck ==
    /\ ByeOnly
    /\ ~utter.checked
    /\ utter' = [utter EXCEPT !.checked = TRUE, !.bye = sm_check_for_bye(utter.text)]

ByeNext ==
    \/ ByeAppend
    \/ ByeCheck

-----------------------------------------------------------------------------
(* SpecAudio: the audio paths of one connected VoiceAgent (src/services)   *)
(* and the calls the src/core session and other callers make on it.  One   *)
(* iteration of _send_loop and one call of _handle_audio are one step      *)
(* each.  Time is in quarters of a second.                                 *)

AUDIO_RESPONSE_DELAY == 2        \* RESPONSE_DELAY_SEC, 0.5 s
OUTPUT_BUFFER_BYTES == 64000     \* the budget _handle_audio tests

\* the microphone chunks read (two samples stand for the 800 of a chunk)
MicChunks == {<<0, 0>>, <<700, -700>>}

\* VoiceAgent._SILENCE: as long as a chunk, all zeros
VA_SILENCE == <<0, 0>>

\* the lengths of the inbound audio frames, in bytes
FrameBytes == {24000, 40000}

NoOut == [chunk |-> <<>>, frame |-> <<>>, live |-> FALSE]

RECURSIVE buffered_bytes(_)
\* sum(len(c) for c in self._output_buffer)
buffered_bytes(buf) ==
    IF buf = <<>> THEN 0 ELSE Head(buf).bytes + buffered_bytes(Tail(buf))

\* set_paused
va_set_paused(a, p) == [a EXCEPT !.paused = p]

\* a suppress_output_for that opens no window
va_suppress_output_not(a, seconds, t) == a

\* suppress_output_for, called at time t
va_suppress_output_for(a, seconds, t) ==
    [a EXCEPT !.output_suppress_until = t + seconds, !.output_buffer = <<>>]

\* silence_agent: what it does to the audio held back
va_silence_clears(a) == [a EXCEPT !.output_buffer = <<>>]

\* _send_loop: does this iteration forward the chunk it has read?
va_sends_live(a) == a.input_enabled /\ ~a.paused

\* _send_loop: the frame sent for the chunk read
va_send_chunk(a, chunk) == IF va_sends_live(a) THEN chunk ELSE VA_SILENCE

\* _handle_audio at time t: what becomes of the frame, the agent afterwards
\* and the frames written to the speaker, in the order of the writes
va_handle_audio(a, f, t) ==
    IF a.paused \/ a.input_enabled
    THEN [fate |-> "discarded", agent |-> a, written |-> <<>>]
    ELSE IF t < a.output_suppress_until
    THEN IF buffered_bytes(a.output_buffer) < OUTPUT_BUFFER_BYTES
         THEN [fate |-> "buffered",
               agent |-> [a EXCEPT !.output_buffer = Append(a.output_buffer, f)],
               written |-> <<>>]
         ELSE [fate |-> "over_budget", agent |-> a, written |-> <<>>]
    ELSE [fate |-> "written",
          agent |-> [a EXCEPT !.output_buffer = <<>>],
          written |-> Append(a.output_buffer, f)]

\* start_agent.do_connect once connect() has returned: the gate follows the
\* button
va_after_connect(a, holding, t) ==
    IF holding THEN va_set_input_enabled(a, TRUE)
    ELSE va_suppress_output_for(va_set_input_enabled(a, FALSE),
                                AUDIO_RESPONSE_DELAY, t)

ava_init ==
    [input_enabled |-> FALSE, paused |-> FALSE,
     output_suppress_until |-> 0, output_buffer |-> <<>>]

\* nothing sent or received since the last call on the agent
ahist_reset(h) == [h EXCEPT !.out = NoOut, !.fate = "none"]

\* the ids of the frames of a buffer
frame_ids(buf) == {buf[i].id : i \in 1..Len(buf)}

\* start_agent has just been called by the second press of a double-click
\* in idle: the VoiceAgent is new, do_connect is inside connect(), the
\* button is down
AudioInit ==
    /\ aclock = 0
    /\ ava = ava_init
    /\ ases = [state |-> "idle", btn |-> "down", holding |-> TRUE]
    /\ ahist = [ptt |-> FALSE, released |-> FALSE, release_at |-> 0,
                pause_req |-> FALSE, arrived |-> 0,
                lost |-> {}, out |-> NoOut, fate |-> "none"]
    /\ spk = <<>>

\* _on_button_release_idle while do_connect is inside connect()
AudReleaseIdle ==
    /\ AudioOnly
    /\ ases.state = "idle"
    /\ ases.btn = "down"
    /\ ava' = va_suppress_output_for(va_set_input_enabled(ava, FALSE),
                                     AUDIO_RESPONSE_DELAY, aclock)
    /\ ases' = [ases EXCEPT !.btn = "up", !.holding = FALSE]
    /\ UNCHANGED <<aclock, spk, ahist>>

\* do_connect once connect() has returned with the agent running
AudConnectDone ==
    /\ AudioOnly
    /\ ases.state = "idle"
    /\ ava' = va_after_connect(ava, ases.holding, aclock)
    /\ ases' = [ases EXCEPT !.state = "active"]
    /\ ahist' = [ahist_reset(ahist) EXCEPT !.ptt = ases.holding]
    /\ UNCHANGED <<aclock, spk>>

AudTick ==
    /\ AudioOnly
    /\ aclock < MaxAudioTime
    /\ aclock' = aclock + 1
    /\ UNCHANGED <<ava, ases, spk, ahist>>

\* _on_button_press_active, the push-to-talk branch
AudPress ==
    /\ AudioOnly
    /\ ases.state = "active"
    /\ ases.btn = "up"
    /\ ava' = va_set_input_enabled(va_silence_clears(ava), TRUE)
    /\ ases' = [ases EXCEPT !.btn = "down", !.holding = TRUE]
    /\ ahist' = [ahist_reset(ahist) EXCEPT
                   !.ptt = TRUE, !.released = FALSE,
                   !.lost = @ \cup frame_ids(ava.output_buffer)]
    /\ UNCHANGED <<aclock, spk>>

\* _on_button_release_active
AudRelease ==
    /\ AudioOnly
    /\ ases.state = "active"
    /\ ases.btn = "down"
    /\ ava' = va_suppress_output_for(va_set_input_enabled(ava, FALSE),
                                     AUDIO_RESPONSE_DELAY, aclock)
    /\ ases' = [ases EXCEPT !.btn = "up", !.holding = FALSE]
    /\ ahist' = [ahist_reset(ahist) EXCEPT
                   !.ptt = FALSE, !.released = TRUE, !.release_at = aclock,
                   !.lost = @ \cup frame_ids(ava.output_buffer)]
    /\ UNCHANGED <<aclock, spk>>

\* set_paused, from whoever holds the agent
AudSetPaused ==
    /\ AudioOnly
    /\ \E p \in BOOLEAN :
         /\ ava' = va_set_paused(ava, p)
         /\ ahist' = [ahist_reset(ahist) EXCEPT !.pause_req = p]
    /\ UNCHANGED <<aclock, ases, spk>>

\* execute_tool, start_game: _set_state("game") and _enter_game
AudStartGame ==
    /\ AudioOnly
    /\ ases.state = "active"
    /\ ases' = [ases EXCEPT !.state = "game"]
    /\ ahist' = ahist_reset(ahist)
    /\ UNCHANGED <<ava, aclock, spk>>

\* the button in a game: the handlers are the game's
AudGamePress ==
    /\ AudioOnly
    /\ ases.state = "game"
    /\ ases.btn = "up"
    /\ ases' = [ases EXCEPT !.btn = "down"]
    /\ ahist' = [ahist EXCEPT !.released = FALSE]
    /\ UNCHANGED <<ava, aclock, spk>>

AudGameRelease ==
    /\ AudioOnly
    /\ ases.state = "game"
    /\ ases.btn = "down"
    /\ ases' = [ases EXCEPT !.btn = "up"]
    /\ ahist' = [ahist EXCEPT !.ptt = FALSE]
    /\ UNCHANGED <<ava, aclock, spk>>

\* exit_game
AudExitGame ==
    /\ AudioOnly
    /\ ases.state = "game"
    /\ ases' = [ases EXCEPT !.state = "active"]
    /\ ahist' = ahist_reset(ahist)
    /\ UNCHANGED <<ava, aclock, spk>>

\* _send_loop, one iteration: a chunk is read and a frame is sent for it
AudSend ==
    /\ AudioOnly
    /\ ases.state # "idle"
    /\ \E chunk \in MicChunks :
         ahist' = [ahist EXCEPT !.out = [chunk |-> chunk,
                                         frame |-> va_send_chunk(ava, chunk),
                                         live |-> va_sends_live(ava)]]
    /\ UNCHANGED <<ava, aclock, ases, spk>>

\* _receive_loop: a binary frame arrives, _handle_audio
AudFrame ==
    /\ AudioOnly
    /\ ases.state # "idle"
    /\ ahist.arrived < MaxFrames
    /\ \E n \in FrameBytes :
         LET f == [id |-> ahist.arrived + 1, bytes |-> n]
             r == va_handle_audio(ava, f, aclock)
         IN  /\ ava' = r.agent
             /\ spk' = spk \o [i \in 1..Len(r.written) |-> r.written[i].id]
             /\ ahist' = [ahist EXCEPT !.arrived = @ + 1, !.fate = r.fate]
    /\ UNCHANGED <<aclock, ases>>

AudioNext ==
    \/ AudTick
    \/ AudReleaseIdle
    \/ AudConnectDone
    \/ AudPress
    \/ AudRelease
    \/ AudSetPaused
    \/ AudStartGame
    \/ AudGamePress
    \/ AudGameRelease
    \/ AudExitGame
    \/ AudSend
    \/ AudFrame

-----------------------------------------------------------------------------
(* SpecLed: _update_display of src/core and the LED of the board.  The     *)
(* calls are those made one at a time (under the session lock).  Time is   *)
(* in fifths of a second.                                                  *)

RGB_MIN_INTERVAL == 2      \* _RGB_MIN_INTERVAL, 0.4 s

\* the colours asked for: TURN_RGB
LedColours == {"green", "amber", "red"}

\* an update that looks at the colour only
sm_rgb_applies_unpaced(l, rgb) == rgb # l.current_rgb

\* _update_display: is the colour asked for put on the LED?
sm_rgb_applies(l, rgb) ==
    rgb # l.current_rgb /\ (l.now - l.last_rgb_time) >= RGB_MIN_INTERVAL

\* _update_display(rgb=...) with a board: the fields and the LED afterwards
sm_update_display(l, rgb) ==
    IF sm_rgb_applies(l, rgb)
    THEN [l EXCEPT !.current_rgb = rgb, !.last_rgb_time = l.now, !.board_rgb = rgb]
    ELSE l

\* history of the last call: the colour asked for, the time of the call, and
\* the fields and the LED as the call found them
NoLedCall == [rgb |-> "none", at |-> 0, current_rgb |-> "none",
              last_rgb_time |-> 0, board_rgb |-> "off"]

\* after __init__: nothing applied yet; time.time() is far from 0, the clock
\* starts one interval after it
LedInit ==
    led = [current_rgb |-> "none", last_rgb_time |-> 0, board_rgb |-> "off",
           now |-> RGB_MIN_INTERVAL, call |-> NoLedCall, applied_before |-> -1]

LedTick ==
    /\ LedOnly
    /\ led.now < MaxLedTime
    /\ led' = [led EXCEPT !.now = @ + 1]

\* a call of _update_display that carries a colour (rgb, or turn in TURN_RGB)
LedUpdateDisplay ==
    /\ LedOnly
    /\ \E rgb \in LedColours :
         LET l == sm_update_display(led, rgb)
         IN  led' = [l EXCEPT
                       !.call = [rgb |-> rgb, at |-> led.now,
                                 current_rgb |-> led.current_rgb,
                                 last_rgb_time |-> led.last_rgb_time,
                                 board_rgb |-> led.board_rgb],
                       !.applied_before =
                           IF l.last_rgb_time # led.last_rgb_time
                              /\ led.current_rgb # "none"
                           THEN led.last_rgb_time ELSE @]

\* _enter_asleep: the LED is put out past _update_display
LedEnterAsleep ==
    /\ LedOnly
    /\ led.board_rgb # "off"
    /\ led' = [led EXCEPT !.board_rgb = "off", !.call = NoLedCall]

\* _notify_flash: the LED is left on the colour recorded
LedNotifyFlash ==
    /\ LedOnly
    /\ led.current_rgb # "none"
    /\ led.board_rgb # led.current_rgb
    /\ led' = [led EXCEPT !.board_rgb = led.current_rgb, !.call = NoLedCall]

LedNext ==
    \/ LedTick
    \/ LedUpdateDisplay
    \/ LedEnterAsleep
    \/ LedNotifyFlash

-----------------------------------------------------------------------------
(* The src/core session, the button poll loop and the games: SpecSession  *)
(*                                                                         *)
(* _button_poll_loop reads the level of the button, and on an edge starts  *)
(* a thread on the callback the board holds at that instant.  The thread   *)
(* runs the handler under the session lock, in whatever state the session  *)
(* is in by then; the threads of two edges take the lock in either order.  *)
(* A handler, a timer callback and an agent event are one step each.  The  *)
(* Connection is kept as "none", "muted", "live" (the mic is forwarded) or *)
(* "dead" (its connect failed).  One do_connect thread and one             *)
(* _end_conversation thread are followed at a time.                        *)

HandlerIds == 1..MaxHandlers
GameIds == 1..MaxGames

NoHandler == [cb |-> "none", game |-> 0]
NoGame == [created |-> FALSE, running |-> FALSE]
NoSessHist == [step |-> "none", cb |-> "none", state |-> "none"]

\* the states whose agent events _on_agent_event hands on
AgentEventStates == {"active", "music", "game"}

\* __init__: every field, then _set_state("asleep")
ss_init ==
    [state |-> "asleep", holding |-> FALSE, agent |-> "none",
     connecting |-> FALSE, ender |-> "none", active_game |-> 0,
     idle_timer |-> "none"]

\* _set_state: the timers are cancelled, then the entry handler of the new
\* state runs
ss_set_state(s, new_state, game) ==
    [s EXCEPT !.state = new_state,
              !.holding = IF new_state = "asleep" THEN FALSE ELSE @,
              !.active_game = IF new_state = "game" THEN game ELSE @,
              !.idle_timer = CASE new_state = "idle" -> "idle_sleep"
                               [] new_state \in {"active", "music"} -> "idle_timeout"
                               [] OTHER -> "none"]

\* _touch_activity
ss_touch(s) == [s EXCEPT !.idle_timer = "idle_timeout"]

\* self._agent.set_input_enabled(enabled), if self._agent
ss_set_input(s, enabled) ==
    IF s.agent \in {"muted", "live"}
    THEN [s EXCEPT !.agent = IF enabled THEN "live" ELSE "muted"]
    ELSE s

\* start_agent: a new VoiceAgent and a do_connect thread
ss_start_agent(s) == [s EXCEPT !.agent = "muted", !.connecting = TRUE]

\* threading.Thread(target=self._end_conversation, ...).start()
ss_spawn_ender(s) ==
    IF s.ender = "none" THEN [s EXCEPT !.ender = "spawned"] ELSE s

\* the press callback _set_state and the entry handler leave on the board
board_press_callback(s) ==
    CASE s.state = "asleep" -> [cb |-> "press_asleep", game |-> 0]
      [] s.state = "idle" -> [cb |-> "press_idle", game |-> 0]
      [] s.state = "game" -> [cb |-> "game_press", game |-> s.active_game]
      [] OTHER -> [cb |-> "press_active", game |-> 0]

\* the release callback: none while asleep
board_release_callback(s) ==
    CASE s.state = "asleep" -> NoHandler
      [] s.state = "idle" -> [cb |-> "release_idle", game |-> 0]
      [] s.state = "game" -> [cb |-> "game_release", game |-> s.active_game]
      [] OTHER -> [cb |-> "release_active", game |-> 0]

\* _on_idle_timeout ends the conversation ...
sm_idle_timeout_ends_anywhere(state) == TRUE

\* ... only if self.state == "active"
sm_idle_timeout_ends(state) == state = "active"

\* exit_game: the active game is stopped and forgotten, then
\* _set_state("active")
sm_exit_game(s) == ss_set_state([s EXCEPT !.active_game = 0], "active", 0)

games_after_exit(G, s) ==
    IF s.active_game = 0 THEN G
    ELSE [G EXCEPT ![s.active_game].running = FALSE]

SessInit ==
    /\ ss = ss_init
    /\ sbtn = "up"
    /\ sclick = DOUBLE_CLICK_SEC
    /\ hthr = [h \in HandlerIds |-> NoHandler]
    /\ games = [g \in GameIds |-> NoGame]
    /\ shist = NoSessHist

SessTick ==
    /\ SessOnly
    /\ sclick < DOUBLE_CLICK_SEC
    /\ sclick' = sclick + 1
    /\ shist' = NoSessHist
    /\ UNCHANGED <<ss, sbtn, hthr, games>>

\* the thread of the edge is started on the callback cb, if there is one
handler_started(cb) ==
    IF cb.cb = "none" THEN hthr' = hthr
    ELSE \E h \in HandlerIds :
            /\ hthr[h] = NoHandler
            /\ \A k \in HandlerIds : k < h => hthr[k] # NoHandler
            /\ hthr' = [hthr EXCEPT ![h] = cb]

\* _button_poll_loop reads a pressed button after a released one
SessPollPress ==
    /\ SessOnly
    /\ sbtn = "up"
    /\ sbtn' = "down"
    /\ handler_started(board_press_callback(ss))
    /\ shist' = NoSessHist
    /\ UNCHANGED <<ss, sclick, games>>

\* _button_poll_loop reads a released button after a pressed one
SessPollRelease ==
    /\ SessOnly
    /\ sbtn = "down"
    /\ sbtn' = "up"
    /\ handler_started(board_release_callback(ss))
    /\ shist' = NoSessHist
    /\ UNCHANGED <<ss, sclick, games>>

\* the thread h runs its handler and ends
handler_runs(h, cb) ==
    /\ hthr[h].cb = cb
    /\ hthr' = [hthr EXCEPT ![h] = NoHandler]
    /\ shist' = [step |-> "handler", cb |-> cb, state |-> ss.state]

\* _on_button_press_asleep
SessPressAsleep ==
    /\ SessOnly
    /\ \E h \in HandlerIds : handler_runs(h, "press_asleep")
    /\ IF sm_is_double_click(sclick)
       THEN /\ sclick' = DOUBLE_CLICK_SEC
            /\ ss' = ss_set_state(ss, "idle", 0)
       ELSE /\ sclick' = 0
            /\ ss' = ss
    /\ UNCHANGED <<sbtn, games>>

\* _on_button_press_idle
SessPressIdle ==
    /\ SessOnly
    /\ \E h \in HandlerIds : handler_runs(h, "press_idle")
    /\ IF sm_is_double_click(sclick)
       THEN /\ sclick' = DOUBLE_CLICK_SEC
            /\ ss' = ss_start_agent([ss EXCEPT !.holding = TRUE])
       ELSE /\ sclick' = 0
            /\ ss' = ss
    /\ UNCHANGED <<sbtn, games>>

\* _on_button_release_idle
SessReleaseIdle ==
    /\ SessOnly
    /\ \E h \in HandlerIds : handler_runs(h, "release_idle")
    /\ ss' = ss_set_input([ss EXCEPT !.holding = FALSE], FALSE)
    /\ UNCHANGED <<sbtn, sclick, games>>

\* _on_button_press_active
SessPressActive ==
    /\ SessOnly
    /\ \E h \in HandlerIds : handler_runs(h, "press_active")
    /\ IF sm_is_double_click(sclick)
       THEN /\ sclick' = DOUBLE_CLICK_SEC
            /\ ss' = ss_spawn_ender([ss EXCEPT !.holding = FALSE])
       ELSE /\ sclick' = sclick
            /\ ss' = ss_touch(ss_set_input([ss EXCEPT !.holding = TRUE], TRUE))
    /\ UNCHANGED <<sbtn, games>>

\* _on_button_release_active
SessReleaseActive ==
    /\ SessOnly
    /\ \E h \in HandlerIds : handler_runs(h, "release_active")
    /\ sclick' = 0
    /\ ss' = ss_touch(ss_set_input([ss EXCEPT !.holding = FALSE], FALSE))
    /\ UNCHANGED <<sbtn, games>>

\* on_button_press of a game: the time of the press is kept
SessGamePress ==
    /\ SessOnly
    /\ \E h \in HandlerIds : handler_runs(h, "game_press")
    /\ UNCHANGED <<ss, sbtn, sclick, games>>

\* on_button_release of the game g: after a hold of more than a second the
\* game leaves through exit_game, else the cursor moves
SessGameRelease ==
    /\ SessOnly
    /\ \E h \in HandlerIds, long \in BOOLEAN :
          /\ handler_runs(h, "game_release")
          /\ IF long
             THEN /\ games' = games_after_exit(
                                [games EXCEPT ![hthr[h].game].running = FALSE], ss)
                  /\ ss' = sm_exit_game(ss)
             ELSE UNCHANGED <<ss, games>>
    /\ UNCHANGED <<sbtn, sclick>>

\* connect() returns and do_connect, under the lock, looks at self._agent
SessConnectDone ==
    /\ SessOnly
    /\ ss.connecting
    /\ \E ok \in BOOLEAN :
          IF ss.agent \in {"muted", "live"} /\ ok
          THEN ss' = ss_set_state(
                       ss_set_input([ss EXCEPT !.connecting = FALSE], ss.holding),
                       "active", 0)
          ELSE ss' = ss_set_state(
                       [ss EXCEPT !.connecting = FALSE,
                                  !.agent = IF @ = "none" THEN @ ELSE "dead"],
                       "asleep", 0)
    /\ sclick' = IF ss'.state = "asleep" THEN DOUBLE_CLICK_SEC ELSE sclick
    /\ shist' = NoSessHist
    /\ UNCHANGED <<sbtn, hthr, games>>

\* an agent event that only counts as activity (user_speaking,
\* agent_thinking, agent_speaking, agent_audio_done)
SessAgentActivity ==
    /\ SessOnly
    /\ ss.state \in AgentEventStates /\ ss.agent \in {"muted", "live"}
    /\ ss' = ss_touch(ss)
    /\ ss' # ss
    /\ shist' = NoSessHist
    /\ UNCHANGED <<sbtn, sclick, hthr, games>>

\* conversation_text of the user with a farewell in it
SessFarewell ==
    /\ SessOnly
    /\ ss.state \in AgentEventStates /\ ss.agent \in {"muted", "live"}
    /\ ss.ender = "none"
    /\ ss' = ss_spawn_ender(ss_touch(ss))
    /\ shist' = NoSessHist
    /\ UNCHANGED <<sbtn, sclick, hthr, games>>

\* function call play_song: _set_state("music")
SessPlaySong ==
    /\ SessOnly
    /\ ss.state \in AgentEventStates /\ ss.agent \in {"muted", "live"}
    /\ ss' = ss_set_state(ss, "music", 0)
    /\ ss' # ss
    /\ shist' = NoSessHist
    /\ UNCHANGED <<sbtn, sclick, hthr, games>>

\* function call start_game: a new game object, _set_state("game", game=game)
\* and game.start
SessStartGame ==
    /\ SessOnly
    /\ ss.state \in AgentEventStates /\ ss.agent \in {"muted", "live"}
    /\ \E g \in GameIds :
          /\ ~games[g].created
          /\ \A k \in GameIds : k < g => games[k].created
          /\ games' = [games EXCEPT ![g] = [created |-> TRUE, running |-> TRUE]]
          /\ ss' = ss_set_state(ss, "game", g)
    /\ shist' = NoSessHist
    /\ UNCHANGED <<sbtn, sclick, hthr>>

\* the idle timer expires and its callback runs: _on_idle_sleep or
\* _on_idle_timeout
SessTimerFires ==
    /\ SessOnly
    /\ ss.idle_timer # "none"
    /\ shist' = [step |-> "timer", cb |-> ss.idle_timer, state |-> ss.state]
    /\ CASE ss.idle_timer = "idle_sleep" /\ ss.state = "idle" ->
                /\ ss' = ss_set_state(ss, "asleep", 0)
                /\ sclick' = DOUBLE_CLICK_SEC
         [] ss.idle_timer = "idle_timeout" /\ sm_idle_timeout_ends(ss.state) ->
                /\ ss' = ss_spawn_ender([ss EXCEPT !.idle_timer = "none"])
                /\ sclick' = sclick
         [] OTHER ->
                /\ ss' = [ss EXCEPT !.idle_timer = "none"]
                /\ sclick' = sclick
    /\ UNCHANGED <<sbtn, hthr, games>>

\* _end_conversation takes the Connection under the lock
SessEndBegin ==
    /\ SessOnly
    /\ ss.ender = "spawned"
    /\ ss' = [ss EXCEPT !.ender = "waiting", !.agent = "none"]
    /\ shist' = NoSessHist
    /\ UNCHANGED <<sbtn, sclick, hthr, games>>

\* _end_conversation, after the farewell and disconnect: _set_state("asleep")
SessEndAsleep ==
    /\ SessOnly
    /\ ss.ender = "waiting"
    /\ ss' = ss_set_state([ss EXCEPT !.ender = "none"], "asleep", 0)
    /\ sclick' = DOUBLE_CLICK_SEC
    /\ shist' = NoSessHist
    /\ UNCHANGED <<sbtn, hthr, games>>

SessNext ==
    \/ SessTick
    \/ SessPollPress
    \/ SessPollRelease
    \/ SessPressAsleep
    \/ SessPressIdle
    \/ SessReleaseIdle
    \/ SessPressActive
    \/ SessReleaseActive
    \/ SessGamePress
    \/ SessGameRelease
    \/ SessConnectDone
    \/ SessAgentActivity
    \/ SessFarewell
    \/ SessPlaySong
    \/ SessStartGame
    \/ SessTimerFires
    \/ SessEndBegin
    \/ SessEndAsleep

-----------------------------------------------------------------------------
(* The specifications *)

\* every specification starts from the state after construction
Init ==
    /\ EchoInit
    /\ SilenceInit
    /\ ConnInit
    /\ NewSMInit
    /\ CoreInit
    /\ ByeInit
    /\ AudioInit
    /\ LedInit
    /\ SessInit

SpecEcho == Init /\ [][EchoNext]_vars

\* the three messages of an agent turn in any order, while the clock runs
\* and _send_loop keeps reading chunks
UnmuteNext ==
    \/ EchoTick
    \/ EchoSendLoop
    \/ EchoUserStartedSpeaking
    \/ EchoAgentStartedSpeaking
    \/ EchoAgentAudioDone

SpecUnmute ==
    Init /\ [][UnmuteNext]_vars /\ WF_vars(EchoTick) /\ WF_vars(EchoSendLoop)

SpecSilence == Init /\ [][SilenceNext]_vars

SpecConn == Init /\ [][ConnNext]_vars

SpecNewSM == Init /\ [][NewSMNext]_vars

SpecCore == Init /\ [][CoreNext]_vars

SpecBye == Init /\ [][ByeNext]_vars

SpecAudio == Init /\ [][AudioNext]_vars

SpecLed == Init /\ [][LedNext]_vars

SpecSession == Init /\ [][SessNext]_vars

-----------------------------------------------------------------------------
(* Claims about the src/core session, checked under SpecCore *)

\* C1: epoch monotonicity. A callback scheduled with _start_timer while the
\* epoch was e is never executing once the live epoch exceeds e: no timer
\* thread is inside its callback with a stale epoch, whatever the
\* interleaving of timer threads, button handlers and agent-event handlers.
C1_EpochMonotonicity ==
    \A t \in timer_thr : t.pc = "body" => ~t.stale

OpenAgents == {i \in AgentIds : va_is_open(agents[i])}

\* C2: single-connection invariant. In every reachable state at most one
\* Connection created by start_agent is open (running, or still holding a
\* socket, mic process or speaker process).
C2_SingleConnection ==
    Cardinality(OpenAgents) + (IF leaked THEN 1 ELSE 0) <= 1

\* C8: double-click vs. hold. For a press, release, press sequence in
\* Active whose second press falls inside DOUBLE_CLICK_SEC, the push-to-talk
\* action (silence the agent, enable microphone forwarding, restart the idle
\* timer) is performed for neither press.
C8_NoHoldActionOnDoubleClick ==
    clicks.double => ~clicks.first_ptt /\ ~clicks.second_ptt

\* a play_song request that arrived in the session, for which the player
\* started a song, and whose handling no other thread of the session crossed
PlaySongTurn ==
    /\ call.done
    /\ call.in_session
    /\ call.quiet
    /\ call.name = "play_song"
    /\ call.music

\* C11: scenario normal turn. When an inbound function-call request for
\* play_song has been handled in Active (the player has a song to play and
\* nothing else ran meanwhile), the Tool Executor was invoked once, one
\* FunctionCallResponse frame was sent and the session state is music.
C11_NormalTurn ==
    PlaySongTurn =>
        /\ call.invoked = 1
        /\ call.sent = 1
        /\ sm.state = "music"

C11_Witness == PlaySongTurn /\ call.sent = 1 /\ sm.state = "music"

\* C12: scenario farewell. The termination thread started by a farewell of
\* the user ends with the session at rest and its Connection disconnected:
\* when that thread has come back from agent.disconnect() and is about to
\* set the asleep state, the Connection it took from the session is not
\* running and holds no socket, mic or speaker process.
C12_FarewellDisconnects ==
    \A k \in EnderIds :
        (end_thr[k].pc = "asleep" /\ end_thr[k].reason = "bye"
                                  /\ end_thr[k].agent # 0)
            => va_released(agents[end_thr[k].agent])

\* the idle timer callback is running in the active state
IdleTimeoutInActive ==
    /\ sm.state = "active"
    /\ \E t \in timer_thr : t.pc = "body" /\ t.cb = "idle_timeout"

\* a termination thread with reason timeout has disconnected a Connection
TimeoutDisconnected(k) ==
    /\ end_thr[k].pc = "asleep"
    /\ end_thr[k].reason = "timeout"
    /\ end_thr[k].agent # 0

\* C14: scenario idle timeout. When the idle timer callback runs in Active
\* it starts a termination with reason timeout, and a termination with
\* reason timeout sends no closing-remark InjectAgentMessage to the
\* Connection before disconnecting it.
C14_TimeoutSilent ==
    /\ [][(IdleTimeoutInActive /\ \A t \in timer_thr' : t.pc # "body")
             => \E k \in EnderIds : /\ end_thr'[k].pc = "spawned"
                                    /\ end_thr'[k].reason = "timeout"]_vars
    /\ [](\A k \in EnderIds : end_thr[k].reason = "timeout" => ~end_thr[k].injected)

C14_Witness ==
    \E k \in EnderIds : TimeoutDisconnected(k) /\ va_released(agents[end_thr[k].agent])

\* the timers that were started and have neither been cancelled nor fired
LiveTimerCount ==
    (IF idle_timer = NoTimer THEN 0 ELSE 1) + Cardinality(OrphanTimers)

\* a step in which a call of _set_state under the lock runs from start to end
LockedSetState ==
    \/ CoreConnectDone
    \/ CoreEndAsleep
    \/ (CorePressAsleep /\ sm'.state # sm.state)
    \/ (CoreTimerBody /\ sm'.state # sm.state)

\* C15: a transition bumps the epoch and cancels all pending timers before
\* the entry action of the new state runs, so that immediately after any
\* transition the only live timers are those the entry action started: when
\* _set_state returns, the one live timer is the one the entry action of
\* the state it was called with has stored in _idle_timer, if it starts
\* one, and no other timer is live.
C15_OnlyEntryTimersLive ==
    [][/\ LockedSetState =>
            /\ idle_timer' = idle_timer_after_set_state(sm'.state)
            /\ OrphanTimers' = {}
       /\ CoreToolStartTimer =>
            /\ idle_timer' = idle_timer_after_set_state("music")
            /\ OrphanTimers' = {}]_vars

\* a receiver thread is inside _set_state, which execute_tool has called
ToolInSetState == \E i \in AgentIds : recv_thr[i] = "starting"

\* C16: transitions are strictly sequential under the session lock. Every
\* _set_state call is made with the lock held, the ones requested by tool
\* execution on the receiver thread included, so that no _set_state runs
\* while a timer callback (which holds the lock) is running.
C16_TransitionsUnderLock == ToolInSetState => LockFree

\* C17: at most one live instance of the idle timer. In every reachable
\* state at most one idle timer has been started and neither cancelled nor
\* fired, whatever the interleaving of button handlers, agent-event handlers
\* and tool-triggered transitions.
C17_OneLiveTimer == LiveTimerCount <= 1

\* the do_connect threads inside connect()
Connecting(C) == {i \in AgentIds : C[i] = "connecting"}

\* C23: when the receive loop of a running Connection exits while the
\* session is running and active, the session is told and spawns _reconnect;
\* after its sleep _reconnect starts a connect on a newly constructed
\* VoiceAgent if the session is still running and active, and nothing
\* otherwise; no connect is ever started on a VoiceAgent that was used before
C23_Reconnect ==
    [][ /\ (CoreReceiverExit /\ sm.running /\ sm.state = "active")
              => reconnects' = reconnects + 1
        /\ (CoreReconnect /\ sm.running /\ sm.state = "active")
              => /\ sm'.agent = 1
                 /\ conn_thr'[1] = "connecting"
                 /\ agents'[1] = [va_init EXCEPT !.running = TRUE]
        /\ (CoreReconnect /\ ~(sm.running /\ sm.state = "active"))
              => UNCHANGED <<sm, agents, conn_thr>>
        /\ Cardinality(Connecting(conn_thr')) > Cardinality(Connecting(conn_thr))
              => /\ sm'.agent = 1
                 /\ conn_thr'[1] = "connecting"
                 /\ agents'[1] = [va_init EXCEPT !.running = TRUE]
      ]_vars

\* _reconnect has replaced the Connection of an active session
C23_Witness ==
    /\ sm.running /\ sm.state = "active"
    /\ sm.agent = 1 /\ conn_thr[1] = "connecting"
    /\ reconnects = 0

\* C24: a termination by double-click or farewell goes in this order on the
\* Connection it took from the session: the closing remark is injected, the
\* thread waits, disconnects, and only then the session goes to rest: the
\* state is not idle or asleep while the thread has still to disconnect, and
\* the thread that has disconnected has injected its remark
C24_TerminationOrder ==
    \A k \in EnderIds :
        (end_thr[k].reason \in {"double_click", "bye"} /\ end_thr[k].agent # 0)
            => /\ end_thr[k].pc = "farewell" => sm.state \notin {"idle", "asleep"}
               /\ end_thr[k].pc = "asleep" => end_thr[k].injected

\* C25: in idle a single press of the button opens a Connection
\* (start_agent is called by the handler of that press), and when the
\* handshake of the session's Connection is acknowledged the session
\* becomes active
C25_HoldConnects ==
    [][ /\ CorePressIdle
              => sm'.agent # 0 /\ conn_thr'[sm'.agent] = "connecting"
        /\ (/\ sm.state = "idle" /\ sm.agent # 0
            /\ conn_thr[sm.agent] = "connecting"
            /\ conn_thr'[sm.agent] = "none"
            /\ agents'[sm.agent].ready)
              => sm'.state = "active"
      ]_vars

\* C31: transport fault at connect time. When the connect() of an attempt
\* fails (the running flag it raised is down again when it returns), the
\* do_connect thread of that attempt leaves the session in the resting state
\* and not active, and the session then holds no running Connection
C31_ConnectFaultRests ==
    [][ \A i \in AgentIds :
          (/\ conn_thr[i] = "connecting" /\ conn_thr'[i] = "none"
           /\ agents[i].running /\ ~agents'[i].running)
             => /\ sm'.state \in {"idle", "asleep"}
                /\ sm'.agent = 0 \/ ~agents'[sm'.agent].running
      ]_vars

\* C32: a termination with reason timeout comes only after inactivity: when
\* the callback of an idle timer is about to end the conversation, no
\* _touch_activity has restarted the idle timer since that timer expired
\* (the session has no newer idle timer pending)
C32_TimeoutAfterInactivity ==
    \A t \in timer_thr :
        (t.pc = "body" /\ t.cb = "idle_timeout" /\ sm.state = "active")
            => idle_timer = NoTimer

\* C35: once a termination has begun (an _end_conversation thread has taken
\* the Connection from the session and has not yet put the session to rest),
\* the reconnect path opens no new Connection: _reconnect, after its sleep,
\* does not call start_agent
C35_NoReconnectWhileEnding ==
    [][ (/\ CoreReconnect
         /\ \E k \in EnderIds : end_thr[k].pc \in {"farewell", "asleep"})
            => UNCHANGED <<sm, agents, conn_thr>>
      ]_vars

-----------------------------------------------------------------------------
(* Claims about the newApp protocol client, checked under SpecEcho *)

\* the frame of this instant belongs to a turn [AgentStartedSpeaking, audio
\* frames, AgentAudioDone] that nothing else has interleaved with
InCleanTurn == sent # NoFrame /\ turn.clean

\* C4: echo hard mute. In a turn [AgentStartedSpeaking played, N audio
\* frames, AgentAudioDone] with no other inbound event and no force_listen
\* call, every frame sent from AgentStartedSpeaking until 2 s after
\* AgentAudioDone is the silence frame.
C4_HardMute ==
    (/\ InCleanTurn
     /\ \/ turn.phase = "speaking"
        \/ turn.phase = "done" /\ now < turn.doneAt + UNMUTE_DELAY)
    => sent.frame = SILENCE

\* C4 witness: during the drain delay a loud chunk went out as silence
C4_Witness ==
    /\ InCleanTurn
    /\ turn.phase = "done" /\ now = turn.doneAt + 1
    /\ sent.chunk = <<801, 801>>
    /\ sent.frame = SILENCE

\* C5: echo energy gate. For 3 s after the timed unmute a frame is sent
\* unchanged only if its RMS exceeds 800 and is otherwise replaced by the
\* silence frame; every frame read after the gate window is sent unchanged.
C5_EnergyGate ==
    (InCleanTurn /\ turn.phase = "done" /\ turn.unmutedAt # 0)
    => IF now < turn.unmutedAt + ECHO_GATE_DURATION
       THEN IF rms(sent.chunk) > ECHO_GATE_RMS
            THEN sent.frame = sent.chunk
            ELSE sent.frame = SILENCE
       ELSE sent.frame = sent.chunk

C7_DoubleResponseDropped ==
    (turn.dropped /\ heard # "none") => heard = "discarded"

\* C34: the timed unmute. The microphone is never hard-muted with no unmute
\* pending and no agent turn in progress, in whatever order
\* AgentStartedSpeaking, AgentAudioDone and UserStartedSpeaking arrive; a
\* pending unmute is never more than UNMUTE_DELAY away; and, the clock
\* running and the send loop reading chunks, a muted microphone with an
\* unmute pending is eventually unmuted (or the unmute has been put off
\* past the last instant of the clock)
C34_TimedUnmute ==
    /\ [](na.mic_muted /\ na.unmute_at = 0 => turn.open > 0)
    /\ [](na.mic_muted /\ na.unmute_at # 0 => na.unmute_at <= now + UNMUTE_DELAY)
    /\ (na.mic_muted /\ na.unmute_at # 0)
           ~> (~na.mic_muted \/ na.unmute_at > MaxTime)

\* the send loop has unmuted the microphone UNMUTE_DELAY after the end of a
\* turn with no other turn begun
C34_Witness ==
    /\ turn.phase = "done" /\ turn.open = 0
    /\ turn.unmutedAt = turn.doneAt + UNMUTE_DELAY
    /\ ~na.mic_muted /\ na.unmute_at = 0

-----------------------------------------------------------------------------
(* Claims about silence_agent, checked under SpecSilence *)

InjectorsDone ==
    \A k \in 1..MaxCalls : inj[k].pc \in {"nocall", "done"}

\* C10: debounced silence. For n >= 1 calls of silence_agent, each with its
\* own injection and each made before the delay of the call before it has
\* elapsed, exactly one InjectAgentMessage is sent on a running connection,
\* the one of the last call; a call whose sequence number is no longer
\* current when its delay has elapsed never injects.
C10_DebouncedSilence ==
    /\ burst =>
          /\ Len(wire) <= 1
          /\ wire # <<>> => wire[1] = sva.silence_seq
          /\ (InjectorsDone /\ sva.silence_seq >= 1 /\ sva.running)
                => wire = <<sva.silence_seq>>
    /\ \A k \in 1..MaxCalls :
          inj[k].stale => \A i \in 1..Len(wire) : wire[i] # inj[k].then_inject

\* C10 witness: three calls in a burst, the first two bailed out, the third
\* injected
C10_Witness ==
    /\ burst /\ sva.running /\ InjectorsDone
    /\ sva.silence_seq = 3
    /\ inj[1].stale /\ inj[2].stale
    /\ wire = <<3>>

-----------------------------------------------------------------------------
(* Claims about one VoiceAgent of src/services, checked under SpecConn *)

\* C3: disconnect() is idempotent and releases everything. When it has
\* returned - called once, twice in a row, before connect() completed or
\* after the receive loop exited on a socket error - nothing was raised, the
\* Connection is not running, readiness is cleared and no socket, mic or
\* speaker process is held; a second consecutive call changes no state and
\* emits no event.
C3_DisconnectReleases ==
    last_call.op = "disconnect"
    => /\ ~last_call.raised
       /\ va_released(cva)
       /\ last_call.consecutive = 2 => ~last_call.changed /\ ~last_call.emitted

\* C18: connect() reports failure through the running flag and never
\* throws. When the socket cannot be opened, the settings message cannot be
\* sent or the acknowledgment does not arrive in time, connect() returns
\* normally with is_running false, no mic or speaker process started and the
\* socket closed; is_running is true on return only if the acknowledgment
\* was received.
C18_ConnectFailsQuietly ==
    last_call.op = "connect"
    => /\ ~last_call.raised
       /\ last_call.failure # "none" => va_released(cva)
       /\ cva.running => cva.ready

\* C19: disconnect always succeeds under concurrency. When disconnect() was
\* called while connect() was in progress on the same Connection, also
\* between the acknowledgment and the start of the mic and speaker
\* processes, then once both calls have returned the Connection is not
\* running and holds no socket, mic process or speaker process.
C19_DisconnectDuringConnect ==
    (overlapped /\ conn_pc = "returned")
    => /\ ~cva.running
       /\ cva.ws = "none"
       /\ ~cva.mic_proc
       /\ ~cva.speaker_proc

\* a FunctionCallRequest has been handled on a Connection that is still up
RequestHandled == fc.done /\ cva.running /\ cva.ws = "open"

\* C20: tool-call handling. While the Connection is up, for every function
\* entry of an inbound FunctionCallRequest the Tool Executor is invoked once
\* and exactly one FunctionCallResponse with the same id and name is sent;
\* when the executor raises, the content is an error text, nothing
\* propagates, the receive loop goes on and the Connection stays running.
C20_ToolCallHandling ==
    RequestHandled =>
        /\ Len(fc.outcomes) = Len(fc.frame)
        /\ Len(fc.responses) = Len(fc.frame)
        /\ \A i \in 1..Len(fc.frame) :
               /\ fc.responses[i].id = fc.frame[i].id
               /\ fc.responses[i].name = fc.frame[i].name
               /\ fc.outcomes[i] = "raises" <=> fc.responses[i].content = "error"
        /\ receiver = "running"

C20_Witness ==
    /\ RequestHandled
    /\ Len(fc.frame) = 2
    /\ fc.outcomes[1] = "raises"
    /\ fc.responses[1].content = "error"
    /\ fc.responses[2].id = fc.frame[2].id
    /\ receiver = "running"

-----------------------------------------------------------------------------
(* Claims about the newApp session state machine, checked under SpecNewSM *)

\* C9: long-press. In Active a press held for at least the long-press
\* threshold is classified as a long-press and terminates the session, also
\* when the release edge coincides with the threshold, whichever of the
\* release handler and the long-press timer runs first.
C9_LongPressInclusive ==
    (gest.ptt /\ gest.released /\ gest.held >= NEW_LONG_PRESS_SEC)
    => gest.long_press

\* C26: a double-click always means end now: whenever the session is active,
\* paused or not, a second press inside the double-click window starts the
\* termination path (an _end_conversation run), whatever the sub-state
C26_DoubleClickEnds ==
    [][ (NewPressActive /\ since_click < NEW_DOUBLE_CLICK_SEC)
            => (enders' = enders + 1 \/ nsm'.state = "idle")
      ]_vars

\* C36: concurrent termination triggers of the newApp session. No
\* _end_conversation thread dereferences a Connection reference that another
\* trigger has cleared: when a thread comes out of its farewell sleep to call
\* self._agent.disconnect(), self._agent is still the Connection
C36_NoClearedReference ==
    [][ NewEndConversationFinish => nsm.agent # "none" ]_vars

-----------------------------------------------------------------------------
(* Claims about _check_for_bye, checked under SpecBye *)

\* C13: farewell matching. _check_for_bye returns true exactly when the
\* text, lower-cased, whitespace-trimmed and with trailing '.', '!', '?',
\* ',' stripped, is a member of BYE_WORDS, and false for every other text,
\* the empty text included.
C13_FarewellMatching ==
    utter.checked => (utter.bye <=> bye_cleaned(utter.text) \in BYE_WORDS)

-----------------------------------------------------------------------------
(* Claims about the audio paths of the VoiceAgent, checked under SpecAudio *)

\* C21: set_paused is a full mute of its own: from set_paused(True) until the
\* next set_paused(False) every outbound frame is silence and no inbound
\* frame is written to the speaker, whatever set_input_enabled calls are
\* made in between
C21_PauseIsFullMute ==
    ahist.pause_req =>
        /\ ahist.out.frame \in {<<>>, VA_SILENCE}
        /\ ahist.fate # "written"

\* C22: suppress_output_for holds agent audio back and drops none of it: a
\* frame received inside a suppression window is not written before the
\* window has ended, and every frame held back is written afterwards, in the
\* order of arrival and before any later frame
C22_SuppressionBuffers ==
    /\ ahist.fate = "written" => aclock >= ava.output_suppress_until
    /\ ahist.lost = {}
    /\ \A i, j \in 1..Len(spk) : i < j => spk[i] < spk[j]
    /\ \A i \in 1..Len(ava.output_buffer) :
         \A j \in 1..Len(spk) : spk[j] < ava.output_buffer[i].id

\* C27: push-to-talk. While the button is held in active on a running
\* Connection, from the press handler to the release handler (and the agent
\* not paused), every outbound frame is the chunk read from the microphone
\* and no inbound agent audio is written to the speaker
C27_PushToTalk ==
    (ahist.ptt /\ ases.state = "active" /\ ases.btn = "down" /\ ~ava.paused)
        => /\ ahist.out # NoOut => ahist.out.live /\ ahist.out.frame = ahist.out.chunk
           /\ ahist.fate # "written"

\* held: a chunk that is not silence went out as it was read, and an agent
\* frame was discarded
C27_Witness ==
    /\ ahist.ptt /\ ases.state = "active" /\ ases.btn = "down" /\ ~ava.paused
    /\ ahist.out.live /\ ahist.out.frame = <<700, -700>>
    /\ ahist.fate = "discarded"

\* C28: after the release handler in active, and until the next press, one
\* frame is sent for every chunk read from the microphone, all zeros and as
\* long as the chunk; and no agent audio is written to the speaker during
\* RESPONSE_DELAY_SEC after the release
C28_ReleaseSilencesAndDelays ==
    ahist.released =>
        /\ ahist.out # NoOut =>
              /\ ahist.out.frame = VA_SILENCE
              /\ Len(ahist.out.frame) = Len(ahist.out.chunk)
        /\ aclock < ahist.release_at + AUDIO_RESPONSE_DELAY => ahist.fate # "written"

\* released: silence went out for a chunk that was not silent, and an agent
\* frame that came within the delay is held back
C28_Witness ==
    /\ ahist.released
    /\ ahist.out.chunk = <<700, -700>> /\ ahist.out.frame = VA_SILENCE
    /\ aclock < ahist.release_at + AUDIO_RESPONSE_DELAY
    /\ ahist.fate = "buffered"

\* C30: in a game the agent is suspended: from the start_game transition
\* until exit_game no live microphone audio is forwarded and no agent audio
\* is played; exit_game returns the session to active
C30_GameSuspendsAgent ==
    /\ [](ases.state = "game" =>
             /\ ahist.out # NoOut => ~ahist.out.live /\ ahist.out.frame = VA_SILENCE
             /\ ahist.fate # "written")
    /\ [][AudExitGame => ases'.state = "active"]_vars

-----------------------------------------------------------------------------
(* Claims about _update_display, checked under SpecLed *)

C39_LedShowsRecorded ==
    led.current_rgb # "none" => led.board_rgb = led.current_rgb

-----------------------------------------------------------------------------
(* Claims about the button handlers and the games, checked under SpecSession *)

\* the callback cb is the one the board holds in the state of the session s
handler_fits(cb, s) ==
    CASE cb.cb = "press_asleep" -> s.state = "asleep"
      [] cb.cb \in {"press_idle", "release_idle"} -> s.state = "idle"
      [] cb.cb \in {"press_active", "release_active"} ->
             s.state \in {"active", "music"}
      [] OTHER -> s.state = "game" /\ s.active_game = cb.game

\* C33: a button handler installed for a state acts only while the session
\* is in that state: a handler thread the poll loop started before a
\* transition changes nothing of the session or of the games once the
\* session has left the state the handler was installed for
C33_HandlerActsInItsState ==
    [][ \A h \in HandlerIds :
          (/\ hthr[h] # NoHandler /\ hthr'[h] = NoHandler
           /\ (ss' # ss \/ games' # games))
              => handler_fits(hthr[h], ss)
      ]_vars

\* C37: the holding flag tracks the physical button: once every handler
\* thread the poll loop started has completed and the button is up, _holding
\* is false and the microphone is not forwarded, in whatever order the
\* threads of the edges took the lock
C37_HoldingTracksButton ==
    (sbtn = "up" /\ \A h \in HandlerIds : hthr[h] = NoHandler)
        => ~ss.holding /\ ss.agent # "live"

\* C38: a local game is running only while the state is Game, and at most
\* one at a time: every game object that start has set running and that
\* nothing has stopped is the active game of a session in Game
C38_GameOnlyInGame ==
    \A g \in GameIds :
        games[g].running => ss.state = "game" /\ ss.active_game = g

\* C40: in Music or Game the idle timeout does not terminate the session: an
\* idle timer whose callback runs in one of those states leaves the state
\* and the Connection as they were and starts no _end_conversation
C40_NoTimeoutInMusicOrGame ==
    [][ (/\ SessTimerFires
         /\ ss.idle_timer = "idle_timeout"
         /\ ss.state \in {"music", "game"})
            => /\ ss'.state = ss.state
               /\ ss'.agent = ss.agent
               /\ ss'.ender = ss.ender
               /\ ss'.active_game = ss.active_game
      ]_vars

\* the idle timer restarted by an agent event in Game has just expired there,
\* and the session is still in Game with its Connection and no termination
C40_Witness ==
    /\ shist.step = "timer" /\ shist.cb = "idle_timeout"
    /\ shist.state = "game"
    /\ ss.state = "game" /\ ss.agent \in {"muted", "live"}
    /\ ss.ender = "none"

=============================================================================
